---- MODULE Spec2Model ----
(***************************************************************************)
(* Floor/map lifecycle of the Valetudo Homey app: the floor registry kept  *)
(* in the device store, the robot's live map slot and per-floor backup     *)
(* directories reached over SSH, and the workflows of FloorManager and     *)
(* ValetudoDevice that move map files between them (save, switch floor,    *)
(* new-floor mapping, auto-save).                                          *)
(*                                                                         *)
(* Floor ids are numbers: n stands for the id "floor_n" derived from the   *)
(* name "Floor n".  A file's content is a map token (a number naming the   *)
(* physical map it holds) or NoFile.  Every await of the JavaScript code   *)
(* is a point where another handler may run; the remote commands of one    *)
(* loop are taken as one step whose outcome (all copied, a file skipped    *)
(* because its existence test failed, aborted at some file) is chosen      *)
(* nondeterministically, each injected failure drawing on a fault budget.  *)
(***************************************************************************)
EXTENDS Integers, Sequences, FiniteSets, TLC

\* ------------------------------------------------------------------ bounds
MaxFloors == 2
MaxFaults == 1
MaxSegPolls == 4
MaxNameLen == 3

\* ------------------------------------------------------- program constants
MAX_POLL_ATTEMPTS == 60
TriggerAfterPolls == 3

MAP_FILES == <<"last_map", "ChargerPos.data", "PersistentData_1.data", "PersistentData_2.data">>
CONFLICT_FILES == <<"StartPos.data", "user_map0">>
BACKUP_FILES == <<"last_map_backup", "last_map.bak", "last_map.old">>

NoFile == 0
NULL == 0
\* _pendingNewFloor is null, or <<[name, hasDock]>> while a new floor is mapped.
NoPending == <<>>

Range(s) == {s[i] : i \in 1..Len(s)}
MapFileSet == Range(MAP_FILES)
LiveFiles == MapFileSet \cup Range(CONFLICT_FILES) \cup Range(BACKUP_FILES)

FloorIds == 1..MaxFloors
\* Directory 0 of the floors directory belongs to no floor id.
UnclaimedDir == 0
Dirs == FloorIds \cup {UnclaimedDir}
\* The token of the map the robot holds at start, the tokens of later
\* mapping runs, and the token of a map left in the unclaimed directory.
FirstMap == 1
OrphanMap == MaxFloors + 2

EmptyDir == [f \in MapFileSet |-> NoFile]
FullDir(t) == [f \in MapFileSet |-> t]

VARIABLES
    registry,   \* the device store value 'floor_config': [floors, activeFloor]
    live,       \* files of the live map slot /mnt/data/rockrobo
    backup,     \* files of /mnt/data/rockrobo/floors/<dir>
    robotState, \* the robot's own status
    status,     \* ValetudoDevice._previousState, the status last delivered
    pending,    \* ValetudoDevice._pendingNewFloor
    waiting,    \* ValetudoDevice._waitingForSegments
    nextMap,    \* token of the next map the firmware builds
    faults,     \* remote failures injected so far
    sw,         \* the floor-switch workflow
    nf,         \* the new-floor workflow (button_new_floor)
    as,         \* the auto-save run (_autoSaveNewFloor)
    aliased,    \* whether getStoreValue hands out the stored object itself
    channel,    \* the SshManager: its settings and its connection
    call,       \* the call served last and its outcome
    mqttState,  \* the ValetudoMqtt: _activeSegmentIds and the events it emitted
    clients     \* the ssh2 Client objects the SshManager has created

vars == <<registry, live, backup, robotState, status, pending,
          waiting, nextMap, faults, sw, nf, as, aliased, channel, call,
          mqttState, clients>>

\* ---------------------------------------------------------------- registry
EmptyStore == [floors |-> <<>>, activeFloor |-> NULL]

FindFloor(config, id) ==
    {i \in 1..Len(config.floors) : config.floors[i].id = id}
HasFloor(config, id) == FindFloor(config, id) # {}

getActiveFloor == registry.activeFloor
getFloors == registry.floors

\* name.toLowerCase().replace(/[^a-z0-9]+/g, '_'): "Floor n" gives floor_n.
FloorName(n) == <<"Floor", n>>
DeriveId(name) == name[2]

Min(S) == CHOOSE x \in S : \A y \in S : x <= y

\* saveCurrentFloor's registry write: config.activeFloor = floorId.
MarkActive(config, floorId) == [config EXCEPT !.activeFloor = floorId]

\* floor.hasDock = hasDock on an entry that may lack the property.
WithDock(floor, hasDock) ==
    [id |-> floor.id, name |-> floor.name, hasDock |-> hasDock]

\* floor.hasDock !== false: an entry without the property has a dock.
HasDock(floor) == ~("hasDock" \in DOMAIN floor /\ floor.hasDock = FALSE)

\* saveAsNewFloor's and createEmptyFloor's registry write: push the entry or,
\* when find() returns one, set its hasDock; then make the id active.
Register(config, id, name, hasDock) ==
    LET found == FindFloor(config, id)
    IN  [floors |->
            IF found = {}
            THEN Append(config.floors, [id |-> id, name |-> name, hasDock |-> hasDock])
            ELSE [config.floors EXCEPT ![Min(found)] = WithDock(@, hasDock)],
         activeFloor |-> id]

\* The registry object a handler still holds after an await.  The device
\* store hands out the stored object itself, so that the holder sees what the
\* others have written into it since, or a copy, which stays as it was read.
Held(config) == IF aliased THEN registry ELSE config

\* ----------------------------------------------------------- remote channel
Budget == MaxFaults - faults

\* SshManager.fileExists: the answers it can give for a file with content c
\* when b more failures may be injected; a failed command reads as "absent".
\* Each answer is <<exists, failures used>>.
fileExists(c, b) ==
    {<<c # NoFile, 0>>} \cup (IF c # NoFile /\ b > 0 THEN {<<FALSE, 1>>} ELSE {})

\* Failures are injected at the first two commands of a loop: at the primary
\* file and at the file after it.
FaultAt(k) == k <= 2

\* for (const file of MAP_FILES) { if (await fileExists(src)) await copyFile(src, dst) }
\* from file k on: the outcomes [ok, dst, n, used], n the files copied.  An
\* existence test that fails skips the file, a copy that fails throws.
RECURSIVE CopyLoop(_, _, _, _)
CopyLoop(src, dst, k, b) ==
    IF k > Len(MAP_FILES)
    THEN {[ok |-> TRUE, dst |-> dst, n |-> 0, used |-> 0]}
    ELSE LET f == MAP_FILES[k]
             skipped == CopyLoop(src, dst, k + 1, b)
             copied == {[r EXCEPT !.n = @ + 1] :
                          r \in CopyLoop(src, [dst EXCEPT ![f] = src[f]], k + 1, b)}
             missed == {[r EXCEPT !.used = @ + 1] : r \in CopyLoop(src, dst, k + 1, b - 1)}
             thrown == {[ok |-> FALSE, dst |-> dst, n |-> 0, used |-> 1]}
         IN  IF src[f] = NoFile THEN skipped
             ELSE copied \cup (IF b > 0 /\ FaultAt(k) THEN missed \cup thrown ELSE {})

\* A save that does not verify last_map after the copy.
SaveRemoteUnverified(d, b) ==
    LET mkdirFails == IF b > 0 THEN {[ok |-> FALSE, dir |-> backup[d], used |-> 1]} ELSE {}
        after(r) == {[ok |-> r.ok /\ r.n > 0, dir |-> r.dst, used |-> r.used]}
    IN  mkdirFails \cup UNION {after(r) : r \in CopyLoop(live, backup[d], 1, b)}

\* The remote part of saveCurrentFloor and saveAsNewFloor into directory d:
\* mkdir, the copy loop, the savedCount check and the last_map verification.
\* Outcomes [ok, dir, used].
SaveRemote(d, b) ==
    LET mkdirFails == IF b > 0 THEN {[ok |-> FALSE, dir |-> backup[d], used |-> 1]} ELSE {}
        after(r) ==
            IF ~r.ok \/ r.n = 0
            THEN {[ok |-> FALSE, dir |-> r.dst, used |-> r.used]}
            ELSE {[ok |-> v[1], dir |-> r.dst, used |-> r.used + v[2]] :
                    v \in fileExists(r.dst["last_map"], b - r.used)}
    IN  mkdirFails \cup UNION {after(r) : r \in CopyLoop(live, backup[d], 1, b)}

\* ssh.removeFile over the conflict files and then the map files (steps 5, 6):
\* all removed, or the command for file k fails with the earlier ones removed.
RemoveOrder == CONFLICT_FILES \o MAP_FILES
RemoveFirst(files, k) ==
    [f \in DOMAIN files |->
        IF \E i \in 1..k : RemoveOrder[i] = f THEN NoFile ELSE files[f]]
RemoveOutcomes(b) ==
    {[ok |-> TRUE, live |-> RemoveFirst(live, Len(RemoveOrder)), used |-> 0]}
    \cup (IF b > 0
          THEN {[ok |-> FALSE, live |-> RemoveFirst(live, k - 1), used |-> 1] :
                   k \in {1, Len(CONFLICT_FILES) + 1, Len(CONFLICT_FILES) + 2}}
          ELSE {})

\* ------------------------------------------------- _tryRecoverFloorMap
\* Outcomes are [saved, dir, used]: whether recovery returned true, the target
\* directory's files afterwards and the failures injected.
NotSaved(dir) == {[saved |-> FALSE, dir |-> dir, used |-> 0]}

\* 1. `ls -1` of the floors directory, in name order: floor_1, floor_2, ...
\* and last the directory that is no floor's.
ListedDirs == [i \in 1..(MaxFloors + 1) |-> IF i <= MaxFloors THEN i ELSE UnclaimedDir]

\* A directory search that does not skip the directories of registered floors.
RECURSIVE AdoptFromClaimed(_, _, _, _)
AdoptFromClaimed(k, target, dir, b) ==
    IF k > Len(ListedDirs) THEN NotSaved(dir)
    ELSE LET d == ListedDirs[k]
             next == AdoptFromClaimed(k + 1, target, dir, b)
             adopt(r) ==
                 IF ~r.ok THEN {[saved |-> FALSE, dir |-> r.dst, used |-> r.used]}
                 ELSE IF r.dst["last_map"] # NoFile
                      THEN {[saved |-> TRUE, dir |-> r.dst, used |-> r.used]}
                      ELSE {[n EXCEPT !.used = @ + r.used] :
                              n \in AdoptFromClaimed(k + 1, target, r.dst, b - r.used)}
         IN  IF d = target \/ backup[d]["last_map"] = NoFile
             THEN next
             ELSE UNION {adopt(r) : r \in CopyLoop(backup[d], dir, 1, b)}

RECURSIVE AdoptFrom(_, _, _, _)
AdoptFrom(k, target, dir, b) ==
    IF k > Len(ListedDirs) THEN NotSaved(dir)
    ELSE LET d == ListedDirs[k]
             next == AdoptFrom(k + 1, target, dir, b)
             adopt(r) ==
                 IF ~r.ok THEN {[saved |-> FALSE, dir |-> r.dst, used |-> r.used]}
                 ELSE IF r.dst["last_map"] # NoFile
                      THEN {[saved |-> TRUE, dir |-> r.dst, used |-> r.used]}
                      ELSE {[n EXCEPT !.used = @ + r.used] :
                              n \in AdoptFrom(k + 1, target, r.dst, b - r.used)}
         IN  IF d = target \/ backup[d]["last_map"] = NoFile \/ HasFloor(registry, d)
             THEN next
             ELSE UNION {adopt(r) : r \in CopyLoop(backup[d], dir, 1, b)}

SearchFloorDirs(target, dir, b) ==
    AdoptFrom(1, target, dir, b)
    \cup (IF b > 0 THEN {[saved |-> FALSE, dir |-> dir, used |-> 1]} ELSE {})

\* 2. `ls user_map*` of the live slot: the firmware map becomes last_map and
\* the other map files are taken from the live slot.
FirmwareDir(dir) ==
    [f \in MapFileSet |->
        IF f = "last_map" THEN live["user_map0"]
        ELSE IF live[f] # NoFile THEN live[f] ELSE dir[f]]
SearchFirmwareMaps(dir, b) ==
    IF live["user_map0"] = NoFile THEN NotSaved(dir)
    ELSE {[saved |-> TRUE, dir |-> FirmwareDir(dir), used |-> 0]}
         \cup (IF b > 0 THEN {[saved |-> FALSE, dir |-> dir, used |-> 1]} ELSE {})

\* 3. last_map_backup, last_map.bak, last_map.old of the live slot, in order.
RECURSIVE SearchBackupFiles(_, _, _)
SearchBackupFiles(k, dir, b) ==
    IF k > Len(BACKUP_FILES) THEN NotSaved(dir)
    ELSE IF live[BACKUP_FILES[k]] = NoFile THEN SearchBackupFiles(k + 1, dir, b)
    ELSE {[saved |-> TRUE, dir |-> [dir EXCEPT !["last_map"] = live[BACKUP_FILES[k]]],
           used |-> 0]}
         \cup (IF b > 0 THEN {[saved |-> FALSE, dir |-> dir, used |-> 1]} ELSE {})

FromFirmware(dir, b) == SearchFirmwareMaps(dir, b)
FromBackupFiles(dir, b) == SearchBackupFiles(1, dir, b)

\* Each source is tried from every outcome in which the ones before it have
\* not succeeded.
ThenFirmware(outcomes, b) ==
    UNION {IF r.saved THEN {r}
           ELSE {[n EXCEPT !.used = @ + r.used] : n \in FromFirmware(r.dir, b - r.used)} :
           r \in outcomes}
ThenBackupFiles(outcomes, b) ==
    UNION {IF r.saved THEN {r}
           ELSE {[n EXCEPT !.used = @ + r.used] : n \in FromBackupFiles(r.dir, b - r.used)} :
           r \in outcomes}

\* A recovery that looks at the firmware maps before the floor directories.
tryRecoverFirmwareFirst(target, b) ==
    LET first == FromFirmware(backup[target], b)
        second == UNION {IF r.saved THEN {r}
                         ELSE {[n EXCEPT !.used = @ + r.used] :
                                 n \in SearchFloorDirs(target, r.dir, b - r.used)} :
                         r \in first}
    IN  ThenBackupFiles(second, b)

tryRecoverFloorMap(target, b) ==
    ThenBackupFiles(ThenFirmware(SearchFloorDirs(target, backup[target], b), b), b)

\* Step 2 of switchFloor: isFloorSaved, then recovery when it answers false.
TargetSaved(target, b) ==
    UNION {IF v[1] THEN {[saved |-> TRUE, dir |-> backup[target], used |-> v[2]]}
           ELSE {[r EXCEPT !.used = @ + v[2]] : r \in tryRecoverFloorMap(target, b - v[2])} :
           v \in fileExists(backup[target]["last_map"], b)}

\* ------------------------------------------------------- switch workflow
\* ValetudoDevice.switchFloor and FloorManager.switchFloor.  config is the
\* registry value read when the switch began, saveConfig the one read by the
\* saveCurrentFloor call in progress, i the probes made by _waitForOnline;
\* soft, ssh, verified, patched and rebooted record what this switch did, and
\* stop what _stopIfCleaning did: "none" before it has run, "unprobed" when
\* the status probe failed, "skipped" when the probe reported a status other
\* than 'cleaning', "issued" when it reported 'cleaning' and the stop command
\* was sent.
SwitchIdle ==
    [pc |-> "idle", target |-> NULL, config |-> EmptyStore, saveConfig |-> EmptyStore,
     i |-> 0, soft |-> {}, ssh |-> FALSE, verified |-> FALSE, patched |-> FALSE,
     rebooted |-> FALSE, stop |-> "none", result |-> "none"]

SwitchDone(result) == [sw EXCEPT !.pc = "done", !.result = result]

\* The floor id passed to the saveCurrentFloor call in progress:
\* config.activeFloor of the object the switch holds, read when the call is
\* made.
SaveId == IF aliased THEN sw.saveConfig.activeFloor ELSE sw.config.activeFloor
SwitchFree == sw.pc = "idle"

\* A switch request that does not look at _pendingNewFloor.
SwitchRequestUnguarded(floorId) ==
    /\ SwitchFree
    /\ sw' = [SwitchIdle EXCEPT !.pc = "cache", !.target = floorId]
    /\ UNCHANGED <<registry, live, backup, robotState, status, pending,
                   waiting, nextMap, faults, nf, as, aliased, channel, call,
                   mqttState, clients>>

\* floor picker, flow card 'switch_floor' and widget API: device.switchFloor.
SwitchRequest(floorId) ==
    /\ SwitchFree
    /\ IF pending # NoPending
       THEN sw' = [SwitchIdle EXCEPT !.pc = "done", !.target = floorId,
                                     !.result = "mapping"]
       ELSE sw' = [SwitchIdle EXCEPT !.pc = "cache", !.target = floorId]
    /\ UNCHANGED <<registry, live, backup, robotState, status, pending,
                   waiting, nextMap, faults, nf, as, aliased, channel, call,
                   mqttState, clients>>

\* A switchFloor without the early return for the active floor.
SwitchBeginNoShortcut ==
    /\ sw.pc = "cache"
    /\ LET s == [sw EXCEPT !.config = registry, !.saveConfig = registry]
       IN  sw' = IF ~HasFloor(registry, sw.target)
                 THEN [s EXCEPT !.pc = "done", !.result = "notfound"]
                 ELSE IF registry.activeFloor = NULL
                 THEN [s EXCEPT !.pc = "check"]
                 ELSE IF ~HasFloor(registry, registry.activeFloor)
                 THEN [s EXCEPT !.pc = "check", !.soft = @ \cup {"save1"}]
                 ELSE [s EXCEPT !.pc = "save1"]
    /\ UNCHANGED <<registry, live, backup, robotState, status, pending,
                   waiting, nextMap, faults, nf, as, aliased, channel, call,
                   mqttState, clients>>

\* A switchFloor that does not look the id up in the registry.
SwitchBeginNoFind ==
    /\ sw.pc = "cache"
    /\ LET s == [sw EXCEPT !.config = registry, !.saveConfig = registry]
       IN  sw' = IF registry.activeFloor = sw.target
                 THEN [s EXCEPT !.pc = "done", !.result = "noop"]
                 ELSE IF registry.activeFloor = NULL
                 THEN [s EXCEPT !.pc = "check"]
                 ELSE IF ~HasFloor(registry, registry.activeFloor)
                 THEN [s EXCEPT !.pc = "check", !.soft = @ \cup {"save1"}]
                 ELSE [s EXCEPT !.pc = "save1"]
    /\ UNCHANGED <<registry, live, backup, robotState, status, pending,
                   waiting, nextMap, faults, nf, as, aliased, channel, call,
                   mqttState, clients>>

\* After _cacheCurrentMap: FloorManager.switchFloor reads the registry, rejects
\* an unknown id, returns at once for the active floor, and otherwise starts
\* step 1, the first saveCurrentFloor of the active floor.
SwitchBegin ==
    /\ sw.pc = "cache"
    /\ LET s == [sw EXCEPT !.config = registry, !.saveConfig = registry]
       IN  sw' = IF ~HasFloor(registry, sw.target)
                 THEN [s EXCEPT !.pc = "done", !.result = "notfound"]
                 ELSE IF registry.activeFloor = sw.target
                 THEN [s EXCEPT !.pc = "done", !.result = "noop"]
                 ELSE IF registry.activeFloor = NULL
                 THEN [s EXCEPT !.pc = "check"]
                 ELSE IF ~HasFloor(registry, registry.activeFloor)
                 THEN [s EXCEPT !.pc = "check", !.soft = @ \cup {"save1"}]
                 ELSE [s EXCEPT !.pc = "save1"]
    /\ UNCHANGED <<registry, live, backup, robotState, status, pending,
                   waiting, nextMap, faults, nf, as, aliased, channel, call,
                   mqttState, clients>>

\* A pre-switch backup whose failure is not caught: it ends the switch.
SwitchSaveStrict(at, then) ==
    /\ sw.pc = at
    /\ \E o \in SaveRemote(SaveId, Budget) :
         /\ backup' = [backup EXCEPT ![SaveId] = o.dir]
         /\ faults' = faults + o.used
         /\ registry' = IF o.ok THEN MarkActive(Held(sw.saveConfig), SaveId)
                        ELSE registry
         /\ sw' = IF o.ok THEN [sw EXCEPT !.pc = then, !.ssh = TRUE]
                  ELSE [sw EXCEPT !.pc = "done", !.ssh = TRUE, !.result = "save_failed"]
    /\ UNCHANGED <<live, robotState, status, pending, waiting, nextMap, nf,
                   as, aliased, channel, call, mqttState, clients>>

\* A saveCurrentFloor(config.activeFloor) inside switchFloor (steps 1 and 4):
\* on success the registry is written from the value the save read, a failure
\* is logged and the switch goes on.
SwitchSave(at, then) ==
    /\ sw.pc = at
    /\ \E o \in SaveRemote(SaveId, Budget) :
         /\ backup' = [backup EXCEPT ![SaveId] = o.dir]
         /\ faults' = faults + o.used
         /\ registry' = IF o.ok THEN MarkActive(Held(sw.saveConfig), SaveId)
                        ELSE registry
         /\ sw' = [sw EXCEPT !.pc = then, !.ssh = TRUE,
                             !.soft = IF o.ok THEN @ ELSE @ \cup {at}]
    /\ UNCHANGED <<live, robotState, status, pending, waiting, nextMap, nf,
                   as, aliased, channel, call, mqttState, clients>>

SwitchSave1 == SwitchSave("save1", "check")

\* A step 2 that goes on whether or not the target has a saved map.
SwitchCheckUnverified ==
    /\ sw.pc = "check"
    /\ \E o \in TargetSaved(sw.target, Budget) :
         /\ backup' = [backup EXCEPT ![sw.target] = o.dir]
         /\ faults' = faults + o.used
         /\ sw' = [sw EXCEPT !.pc = "stop", !.ssh = TRUE, !.verified = o.saved]
    /\ UNCHANGED <<registry, live, robotState, status, pending, waiting,
                   nextMap, nf, as, aliased, channel, call, mqttState, clients>>

\* Step 2: the target must have a saved map, directly or by recovery.
SwitchCheck ==
    /\ sw.pc = "check"
    /\ \E o \in TargetSaved(sw.target, Budget) :
         /\ backup' = [backup EXCEPT ![sw.target] = o.dir]
         /\ faults' = faults + o.used
         /\ sw' = IF o.saved
                  THEN [sw EXCEPT !.pc = "stop", !.ssh = TRUE, !.verified = TRUE]
                  ELSE [sw EXCEPT !.pc = "done", !.ssh = TRUE, !.result = "nosaved"]
    /\ UNCHANGED <<registry, live, robotState, status, pending, waiting,
                   nextMap, nf, as, aliased, channel, call, mqttState, clients>>

\* The commands of _stopIfCleaning: both succeed, the status probe fails, or
\* the stop command that follows a report of 'cleaning' fails.
StopOutcomes ==
    {"ok"} \cup (IF Budget > 0
                 THEN {"probe_failed"} \cup
                      (IF robotState = "cleaning" THEN {"stop_failed"} ELSE {})
                 ELSE {})

\* A step 3 that sends the stop command whatever the probe reports.
SwitchStopAlways ==
    /\ sw.pc = "stop"
    /\ \E o \in StopOutcomes :
         /\ faults' = faults + (IF o = "ok" THEN 0 ELSE 1)
         /\ robotState' = IF o = "ok" /\ robotState = "cleaning" THEN "idle" ELSE robotState
         /\ LET s == [sw EXCEPT !.saveConfig = registry,
                                !.stop = IF o = "probe_failed" THEN "unprobed" ELSE "issued",
                                !.soft = IF o # "ok" THEN @ \cup {"stop"} ELSE @]
            IN  sw' = IF Held(sw.config).activeFloor = NULL
                      THEN [s EXCEPT !.pc = "remove"]
                      ELSE IF ~HasFloor(registry, Held(sw.config).activeFloor)
                      THEN [s EXCEPT !.pc = "remove", !.soft = @ \cup {"save2"}]
                      ELSE [s EXCEPT !.pc = "save2"]
    /\ UNCHANGED <<registry, live, backup, status, pending, waiting, nextMap,
                   nf, as, aliased, channel, call, mqttState, clients>>

\* Step 3, _stopIfCleaning: the status probe, and the stop command when the
\* probe reports 'cleaning'; a failure of either is caught and logged.  Then
\* step 4 starts the second saveCurrentFloor.
SwitchStop ==
    /\ sw.pc = "stop"
    /\ \E o \in StopOutcomes :
         /\ faults' = faults + (IF o = "ok" THEN 0 ELSE 1)
         /\ robotState' = IF o = "ok" /\ robotState = "cleaning" THEN "idle" ELSE robotState
         /\ LET s == [sw EXCEPT !.saveConfig = registry,
                                !.stop = IF o = "probe_failed" THEN "unprobed"
                                         ELSE IF robotState = "cleaning" THEN "issued"
                                         ELSE "skipped",
                                !.soft = IF o # "ok" THEN @ \cup {"stop"} ELSE @]
            IN  sw' = IF Held(sw.config).activeFloor = NULL
                      THEN [s EXCEPT !.pc = "remove"]
                      ELSE IF ~HasFloor(registry, Held(sw.config).activeFloor)
                      THEN [s EXCEPT !.pc = "remove", !.soft = @ \cup {"save2"}]
                      ELSE [s EXCEPT !.pc = "save2"]
    /\ UNCHANGED <<registry, live, backup, status, pending, waiting, nextMap,
                   nf, as, aliased, channel, call, mqttState, clients>>

SwitchSave2 == SwitchSave("save2", "remove")

\* Steps 5 and 6 with the failure of a removal caught and logged.
SwitchRemoveLenient ==
    /\ sw.pc = "remove"
    /\ \E o \in RemoveOutcomes(Budget) :
         /\ live' = o.live
         /\ faults' = faults + o.used
         /\ sw' = [sw EXCEPT !.pc = "restore"]
    /\ UNCHANGED <<registry, backup, robotState, status, pending, waiting,
                   nextMap, nf, as, aliased, channel, call, mqttState, clients>>

\* Steps 5 and 6: a failed removal aborts the switch.
SwitchRemove ==
    /\ sw.pc = "remove"
    /\ \E o \in RemoveOutcomes(Budget) :
         /\ live' = o.live
         /\ faults' = faults + o.used
         /\ sw' = IF o.ok THEN [sw EXCEPT !.pc = "restore"]
                  ELSE SwitchDone("remove_failed")
    /\ UNCHANGED <<registry, backup, robotState, status, pending, waiting,
                   nextMap, nf, as, aliased, channel, call, mqttState, clients>>

\* Step 7: copy the target's files into the live slot; a failed copy aborts.
SwitchRestore ==
    /\ sw.pc = "restore"
    /\ \E o \in CopyLoop(backup[sw.target], live, 1, Budget) :
         /\ live' = o.dst
         /\ faults' = faults + o.used
         /\ sw' = IF o.ok THEN [sw EXCEPT !.pc = "patch"]
                  ELSE SwitchDone("restore_failed")
    /\ UNCHANGED <<registry, backup, robotState, status, pending, waiting,
                   nextMap, nf, as, aliased, channel, call, mqttState, clients>>

\* Step 8, _patchConfig: need_recover_map=0, a failure is logged.
SwitchPatch ==
    /\ sw.pc = "patch"
    /\ \E failed \in {FALSE} \cup (IF Budget > 0 THEN {TRUE} ELSE {}) :
         /\ faults' = faults + (IF failed THEN 1 ELSE 0)
         /\ sw' = [sw EXCEPT !.pc = "reboot", !.patched = ~failed,
                             !.soft = IF failed THEN @ \cup {"patch"} ELSE @]
    /\ UNCHANGED <<registry, live, backup, robotState, status, pending,
                   waiting, nextMap, nf, as, aliased, channel, call,
                   mqttState, clients>>

\* A reboot step that writes the new active floor before the wait.
SwitchRebootCommits ==
    /\ sw.pc = "reboot"
    /\ sw' = [sw EXCEPT !.pc = "wait", !.rebooted = TRUE, !.i = 0]
    /\ robotState' = IF robotState = "cleaning" THEN "idle" ELSE robotState
    /\ registry' = MarkActive(Held(sw.config), sw.target)
    /\ UNCHANGED <<live, backup, status, pending, waiting, nextMap, faults,
                   nf, as, aliased, channel, call, mqttState, clients>>

\* Step 9: ssh.reboot swallows the command's error.
SwitchReboot ==
    /\ sw.pc = "reboot"
    /\ sw' = [sw EXCEPT !.pc = "wait", !.rebooted = TRUE, !.i = 0]
    /\ robotState' = IF robotState = "cleaning" THEN "idle" ELSE robotState
    /\ UNCHANGED <<registry, live, backup, status, pending, waiting, nextMap,
                   faults, nf, as, aliased, channel, call, mqttState, clients>>

\* A wait loop that gives up one probe early (i < MAX_POLL_ATTEMPTS - 1).
SwitchProbeShort(reachable) ==
    /\ sw.pc = "wait"
    /\ sw.i < MAX_POLL_ATTEMPTS - 1
    /\ IF reachable
       THEN /\ registry' = MarkActive(Held(sw.config), sw.target)
            /\ sw' = [sw EXCEPT !.pc = "done", !.i = @ + 1, !.result = "ok"]
       ELSE /\ registry' = registry
            /\ sw' = IF sw.i + 1 < MAX_POLL_ATTEMPTS - 1
                     THEN [sw EXCEPT !.i = @ + 1]
                     ELSE [sw EXCEPT !.pc = "done", !.i = @ + 1, !.result = "timeout"]
    /\ UNCHANGED <<live, backup, robotState, status, pending, waiting,
                   nextMap, faults, nf, as, aliased, channel, call, mqttState,
                   clients>>

\* A wait loop that starts over after MAX_POLL_ATTEMPTS unreachable probes.
SwitchProbeAgain(reachable) ==
    /\ sw.pc = "wait"
    /\ sw.i < MAX_POLL_ATTEMPTS
    /\ IF reachable
       THEN /\ registry' = MarkActive(Held(sw.config), sw.target)
            /\ sw' = [sw EXCEPT !.pc = "done", !.i = @ + 1, !.result = "ok"]
       ELSE /\ registry' = registry
            /\ sw' = IF sw.i + 1 < MAX_POLL_ATTEMPTS
                     THEN [sw EXCEPT !.i = @ + 1]
                     ELSE [sw EXCEPT !.i = 0]
    /\ UNCHANGED <<live, backup, robotState, status, pending, waiting,
                   nextMap, faults, nf, as, aliased, channel, call, mqttState,
                   clients>>

\* Steps 10 and 11: one probe of _waitForOnline.  A reachable robot ends the
\* wait and the registry is written from the switch's config with the target
\* active; the MAX_POLL_ATTEMPTS-th unreachable probe throws.
SwitchProbe(reachable) ==
    /\ sw.pc = "wait"
    /\ sw.i < MAX_POLL_ATTEMPTS
    /\ IF reachable
       THEN /\ registry' = MarkActive(Held(sw.config), sw.target)
            /\ sw' = [sw EXCEPT !.pc = "done", !.i = @ + 1, !.result = "ok"]
       ELSE /\ registry' = registry
            /\ sw' = IF sw.i + 1 < MAX_POLL_ATTEMPTS
                     THEN [sw EXCEPT !.i = @ + 1]
                     ELSE [sw EXCEPT !.pc = "done", !.i = @ + 1, !.result = "timeout"]
    /\ UNCHANGED <<live, backup, robotState, status, pending, waiting,
                   nextMap, faults, nf, as, aliased, channel, call, mqttState,
                   clients>>

\* ----------------------------------------------------- new-floor workflow
\* The button_new_floor capability listener.  activeId and count are the
\* active floor and floors.length it read, saveConfig the registry value read
\* by its saveCurrentFloor call; saved records the floor under which this run
\* has saved the live map.
NewFloorIdle ==
    [pc |-> "idle", hasDock |-> TRUE, activeId |-> NULL, count |-> 0,
     saveConfig |-> EmptyStore, saved |-> NULL, result |-> "none"]
NewFloorDone(result) == [nf EXCEPT !.pc = "done", !.result = result]
NewFloorFree == nf.pc = "idle"

\* createEmptyFloor's store write: done, or rejected when a failure may still
\* be injected.
StoreRejects(b) == {FALSE} \cup (IF b > 0 THEN {TRUE} ELSE {})

\* createEmptyFloor(`Floor ${floors.length + 1}`, hasDock) on registry value c.
createEmptyFloor(c, count, hasDock) ==
    Register(c, DeriveId(FloorName(count + 1)), FloorName(count + 1), hasDock)

NewFloorRequest(hasDock) ==
    /\ NewFloorFree
    /\ pending # NoPending \/ Len(registry.floors) < MaxFloors
    /\ LET s == [NewFloorIdle EXCEPT !.hasDock = hasDock,
                                     !.activeId = registry.activeFloor,
                                     !.count = Len(registry.floors),
                                     !.saveConfig = registry]
       IN  IF pending # NoPending
           THEN /\ nf' = NewFloorDone("mapping")
                /\ UNCHANGED <<registry, faults>>
           ELSE IF Len(registry.floors) = 0
           THEN /\ nf' = [s EXCEPT !.pc = "first"]
                /\ UNCHANGED <<registry, faults>>
           ELSE IF registry.activeFloor = NULL
           THEN \E rejected \in StoreRejects(Budget) :
                  /\ nf' = IF rejected THEN [s EXCEPT !.pc = "done", !.result = "failed"]
                           ELSE [s EXCEPT !.pc = "reset"]
                  /\ registry' = IF rejected THEN registry
                                 ELSE createEmptyFloor(registry, s.count, hasDock)
                  /\ faults' = faults + (IF rejected THEN 1 ELSE 0)
           ELSE IF ~HasFloor(registry, registry.activeFloor)
           THEN /\ nf' = NewFloorDone("failed")
                /\ UNCHANGED <<registry, faults>>
           ELSE /\ nf' = [s EXCEPT !.pc = "backup"]
                /\ UNCHANGED <<registry, faults>>
    /\ UNCHANGED <<live, backup, robotState, status, pending, waiting,
                   nextMap, sw, as, aliased, channel, call, mqttState, clients>>

\* No floors yet: saveFloor('Floor 1', hasDock), then createEmptyFloor for the
\* next name.  A failed save rejects the listener; a rejected store write of
\* createEmptyFloor ends the attempt in its catch.
NewFloorFirst ==
    /\ nf.pc = "first"
    /\ Len(registry.floors) + (IF HasFloor(registry, DeriveId(FloorName(1))) THEN 0 ELSE 1)
          < MaxFloors
    /\ \E o \in SaveRemote(DeriveId(FloorName(1)), Budget) :
         /\ backup' = [backup EXCEPT ![DeriveId(FloorName(1))] = o.dir]
         /\ IF o.ok
            THEN LET c == Register(registry, DeriveId(FloorName(1)), FloorName(1), nf.hasDock)
                     s == [nf EXCEPT !.count = Len(c.floors),
                                     !.saved = DeriveId(FloorName(1))]
                 IN  \E rejected \in StoreRejects(Budget - o.used) :
                       /\ registry' = IF rejected THEN c
                                      ELSE createEmptyFloor(c, Len(c.floors), nf.hasDock)
                       /\ nf' = IF rejected THEN [s EXCEPT !.pc = "done", !.result = "failed"]
                                ELSE [s EXCEPT !.pc = "reset"]
                       /\ faults' = faults + o.used + (IF rejected THEN 1 ELSE 0)
            ELSE /\ registry' = registry
                 /\ nf' = NewFloorDone("failed")
                 /\ faults' = faults + o.used
    /\ UNCHANGED <<live, robotState, status, pending, waiting, nextMap, sw,
                   as, aliased, channel, call, mqttState, clients>>

\* saveCurrentFloor(activeFloorId) before the reset, then createEmptyFloor.
NewFloorBackup ==
    /\ nf.pc = "backup"
    /\ \E o \in SaveRemote(nf.activeId, Budget) :
         /\ backup' = [backup EXCEPT ![nf.activeId] = o.dir]
         /\ IF o.ok
            THEN LET c == MarkActive(Held(nf.saveConfig), nf.activeId)
                     s == [nf EXCEPT !.saved = nf.activeId]
                 IN  \E rejected \in StoreRejects(Budget - o.used) :
                       /\ registry' = IF rejected THEN c
                                      ELSE createEmptyFloor(c, nf.count, nf.hasDock)
                       /\ nf' = IF rejected THEN [s EXCEPT !.pc = "done", !.result = "failed"]
                                ELSE [s EXCEPT !.pc = "reset"]
                       /\ faults' = faults + o.used + (IF rejected THEN 1 ELSE 0)
            ELSE /\ registry' = registry
                 /\ nf' = NewFloorDone("failed")
                 /\ faults' = faults + o.used
    /\ UNCHANGED <<live, robotState, status, pending, waiting, nextMap, sw,
                   as, aliased, channel, call, mqttState, clients>>

\* startNewMap, first half: api.resetMap.  The firmware drops its map.
NewFloorReset ==
    /\ nf.pc = "reset"
    /\ \E failed \in {FALSE} \cup (IF Budget > 0 THEN {TRUE} ELSE {}) :
         /\ faults' = faults + (IF failed THEN 1 ELSE 0)
         /\ live' = IF failed THEN live
                    ELSE [f \in LiveFiles |-> IF f \in MapFileSet THEN NoFile ELSE live[f]]
         /\ nf' = IF failed THEN NewFloorDone("failed") ELSE [nf EXCEPT !.pc = "start"]
    /\ UNCHANGED <<registry, backup, robotState, status, pending, waiting,
                   nextMap, sw, as, aliased, channel, call, mqttState, clients>>

\* A listener that sets the pending floor before it knows that mapping started.
NewFloorStartEager ==
    /\ nf.pc = "start"
    /\ \E failed \in {FALSE} \cup (IF Budget > 0 THEN {TRUE} ELSE {}) :
         /\ faults' = faults + (IF failed THEN 1 ELSE 0)
         /\ robotState' = IF failed THEN robotState ELSE "cleaning"
         /\ pending' = <<[name |-> FloorName(nf.count + 1), hasDock |-> nf.hasDock]>>
         /\ nf' = NewFloorDone(IF failed THEN "failed" ELSE "started")
    /\ UNCHANGED <<registry, live, backup, status, waiting, nextMap, sw, as,
                   aliased, channel, call, mqttState, clients>>

\* startNewMap, second half: startMappingPass, or basicControl('start') when
\* the robot has no mapping pass; then _pendingNewFloor is set.
NewFloorStart ==
    /\ nf.pc = "start"
    /\ \E failed \in {FALSE} \cup (IF Budget > 0 THEN {TRUE} ELSE {}) :
         /\ faults' = faults + (IF failed THEN 1 ELSE 0)
         /\ robotState' = IF failed THEN robotState ELSE "cleaning"
         /\ pending' = IF failed THEN pending
                       ELSE <<[name |-> FloorName(nf.count + 1), hasDock |-> nf.hasDock]>>
         /\ nf' = NewFloorDone(IF failed THEN "failed" ELSE "started")
    /\ UNCHANGED <<registry, live, backup, status, waiting, nextMap, sw, as,
                   aliased, channel, call, mqttState, clients>>

\* ------------------------------------------------------------- auto-save
\* _autoSaveNewFloor: n counts the polls of the segment wait (one every
\* SEGMENT_POLL_INTERVAL_MS), triggered is segmentationTriggered, attempts
\* counts the calls of triggerSegmentation.
AutoSaveIdle ==
    [pc |-> "idle", name |-> FloorName(0), hasDock |-> TRUE, n |-> 0,
     triggered |-> FALSE, attempts |-> 0, found |-> FALSE, result |-> "none"]

ActiveStates == {"cleaning", "returning", "moving"}
TerminalStates == {"idle", "docked", "error"}

\* A status handler that starts the auto-save again while one is waiting.
DeliverStatusReentrant ==
    /\ status # robotState
    /\ status' = robotState
    /\ IF /\ pending # NoPending
          /\ robotState \in TerminalStates
          /\ status \in ActiveStates
       THEN /\ waiting' = TRUE
            /\ as' = [AutoSaveIdle EXCEPT !.pc = "poll", !.name = pending[1].name,
                                          !.hasDock = pending[1].hasDock]
       ELSE UNCHANGED <<waiting, as>>
    /\ UNCHANGED <<registry, live, backup, robotState, pending, nextMap,
                   faults, sw, nf, aliased, channel, call, mqttState, clients>>

\* A status handler that reacts to the end of 'cleaning' only.
DeliverStatusCleaningOnly ==
    /\ status # robotState
    /\ status' = robotState
    /\ IF /\ pending # NoPending
          /\ robotState \in TerminalStates
          /\ status = "cleaning"
          /\ ~waiting
       THEN /\ waiting' = TRUE
            /\ as' = [AutoSaveIdle EXCEPT !.pc = "poll", !.name = pending[1].name,
                                          !.hasDock = pending[1].hasDock]
       ELSE UNCHANGED <<waiting, as>>
    /\ UNCHANGED <<registry, live, backup, robotState, pending, nextMap,
                   faults, sw, nf, aliased, channel, call, mqttState, clients>>

\* The robot's status reaches the device (_updateVacuumState): a change from
\* an active to a terminal status while a new floor is pending starts the
\* auto-save, unless one is already waiting for segments.
DeliverStatus ==
    /\ status # robotState
    /\ status' = robotState
    /\ IF /\ pending # NoPending
          /\ robotState \in TerminalStates
          /\ status \in ActiveStates
          /\ ~waiting
       THEN /\ waiting' = TRUE
            /\ as' = [AutoSaveIdle EXCEPT !.pc = "poll", !.name = pending[1].name,
                                          !.hasDock = pending[1].hasDock]
       ELSE UNCHANGED <<waiting, as>>
    /\ UNCHANGED <<registry, live, backup, robotState, pending, nextMap,
                   faults, sw, nf, aliased, channel, call, mqttState, clients>>

\* A segment wait that does not remember that it has triggered segmentation.
AutoSavePollRetrigger(hasSegments) ==
    /\ as.pc = "poll"
    /\ IF pending = NoPending
       THEN /\ as' = [as EXCEPT !.pc = "done", !.result = "aborted"]
            /\ waiting' = FALSE
       ELSE LET trigger == as.n + 1 >= TriggerAfterPolls
            IN  /\ as' = [as EXCEPT !.n = @ + 1,
                                    !.attempts = IF trigger THEN @ + 1 ELSE @,
                                    !.found = hasSegments,
                                    !.pc = IF hasSegments \/ as.n + 1 >= MaxSegPolls
                                           THEN "save" ELSE "poll"]
                /\ waiting' = waiting
    /\ UNCHANGED <<registry, live, backup, robotState, status, pending,
                   nextMap, faults, sw, nf, aliased, channel, call, mqttState,
                   clients>>

\* One round of the segment wait: the manual segmentation trigger once the
\* threshold has passed, then the map poll.  Segments found, or the timeout,
\* end the wait.
AutoSavePoll(hasSegments) ==
    /\ as.pc = "poll"
    /\ IF pending = NoPending
       THEN /\ as' = [as EXCEPT !.pc = "done", !.result = "aborted"]
            /\ waiting' = FALSE
       ELSE LET trigger == ~as.triggered /\ as.n + 1 >= TriggerAfterPolls
            IN  /\ as' = [as EXCEPT !.n = @ + 1,
                                    !.triggered = @ \/ trigger,
                                    !.attempts = IF trigger THEN @ + 1 ELSE @,
                                    !.found = hasSegments,
                                    !.pc = IF hasSegments \/ as.n + 1 >= MaxSegPolls
                                           THEN "save" ELSE "poll"]
                /\ waiting' = waiting
    /\ UNCHANGED <<registry, live, backup, robotState, status, pending,
                   nextMap, faults, sw, nf, aliased, channel, call, mqttState,
                   clients>>

\* An auto-save that keeps the pending floor when its save fails.
AutoSaveSaveKeepsPending ==
    /\ as.pc = "save"
    /\ \E o \in SaveRemote(DeriveId(as.name), Budget) :
         /\ backup' = [backup EXCEPT ![DeriveId(as.name)] = o.dir]
         /\ faults' = faults + o.used
         /\ registry' = IF o.ok THEN Register(registry, DeriveId(as.name), as.name, as.hasDock)
                        ELSE registry
         /\ as' = [as EXCEPT !.pc = "done", !.result = IF o.ok THEN "saved" ELSE "failed"]
         /\ pending' = IF o.ok THEN NoPending ELSE pending
         /\ waiting' = IF o.ok THEN FALSE ELSE waiting
    /\ UNCHANGED <<live, robotState, status, nextMap, sw, nf, aliased,
                   channel, call, mqttState, clients>>

\* saveFloor(name, hasDock): saveAsNewFloor copies, verifies and only then
\* registers the floor; either way the pending floor is cleared.
AutoSaveSave ==
    /\ as.pc = "save"
    /\ \E o \in SaveRemote(DeriveId(as.name), Budget) :
         /\ backup' = [backup EXCEPT ![DeriveId(as.name)] = o.dir]
         /\ faults' = faults + o.used
         /\ registry' = IF o.ok THEN Register(registry, DeriveId(as.name), as.name, as.hasDock)
                        ELSE registry
         /\ as' = [as EXCEPT !.pc = "done", !.result = IF o.ok THEN "saved" ELSE "failed"]
    /\ pending' = NoPending
    /\ waiting' = FALSE
    /\ UNCHANGED <<live, robotState, status, nextMap, sw, nf, aliased,
                   channel, call, mqttState, clients>>

\* ------------------------------------------------------ other handlers
\* Flow card 'save_floor': device.saveFloor(name, hasDock).
SaveFloorCard(id, hasDock) ==
    /\ \/ HasFloor(registry, id)
       \/ Len(registry.floors) < MaxFloors
    /\ \E o \in SaveRemote(id, Budget) :
         /\ backup' = [backup EXCEPT ![id] = o.dir]
         /\ faults' = faults + o.used
         /\ registry' = IF o.ok THEN Register(registry, id, FloorName(id), hasDock)
                        ELSE registry
    /\ UNCHANGED <<live, robotState, status, pending, waiting, nextMap, sw,
                   nf, as, aliased, channel, call, mqttState, clients>>

\* _tryFloorBackup, run when the robot is discovered: the active floor gets a
\* backup of the live map when it has none.
TryFloorBackup ==
    /\ Len(registry.floors) > 0
    /\ registry.activeFloor # NULL
    /\ backup[registry.activeFloor]["last_map"] = NoFile
    /\ live["last_map"] # NoFile
    /\ HasFloor(registry, registry.activeFloor)
    /\ \E o \in SaveRemote(registry.activeFloor, Budget) :
         /\ backup' = [backup EXCEPT ![registry.activeFloor] = o.dir]
         /\ faults' = faults + o.used
         /\ registry' = IF o.ok THEN MarkActive(registry, registry.activeFloor)
                        ELSE registry
    /\ UNCHANGED <<live, robotState, status, pending, waiting, nextMap, sw,
                   nf, as, aliased, channel, call, mqttState, clients>>

\* ------------------------------------------------- registry mutators
\* Each reads the registry, changes it and writes it without an await in
\* between.
RenamedName(n) == <<"Renamed", n>>

\* floor.name = newName on the entry find() returns.
Renamed(config, id, newName) ==
    [config EXCEPT !.floors[Min(FindFloor(config, id))].name = newName]

\* floor.hasDock = hasDock on the entry find() returns.
Docked(config, id, hasDock) ==
    [config EXCEPT !.floors[Min(FindFloor(config, id))] = WithDock(@, hasDock)]

\* config.floors.push({ id, name }): the entry has no hasDock property.
Added(config, id, name) ==
    [config EXCEPT !.floors = Append(@, [id |-> id, name |-> name])]

\* floors.filter((f) => f.id !== id)
WithoutFloor(floors, id) == SelectSeq(floors, LAMBDA f : f.id # id)

\* removeFloor's registry write: the entry is dropped and the active floor is
\* cleared when it was this one.
Removed(config, id) ==
    [floors |-> WithoutFloor(config.floors, id),
     activeFloor |-> IF config.activeFloor = id THEN NULL ELSE config.activeFloor]

\* The handlers below are the mutators as the widget API and the flow card
\* 'update_floor' use them while the workflows run; a call that throws ("not
\* found", "already exists", "Cannot delete the active floor") changes
\* nothing and is not a step of theirs.
RenameFloor(id, newName) ==
    /\ HasFloor(registry, id)
    /\ registry' = Renamed(registry, id, newName)
    /\ UNCHANGED <<live, backup, robotState, status, pending, waiting,
                   nextMap, faults, sw, nf, as, aliased, channel, call,
                   mqttState, clients>>

SetFloorDock(id, hasDock) ==
    /\ HasFloor(registry, id)
    /\ registry' = Docked(registry, id, hasDock)
    /\ UNCHANGED <<live, backup, robotState, status, pending, waiting,
                   nextMap, faults, sw, nf, as, aliased, channel, call,
                   mqttState, clients>>

\* An addFloor that does not look for the id first.
AddFloorUnchecked(id) ==
    /\ Len(registry.floors) < MaxFloors
    /\ registry' = Added(registry, id, FloorName(id))
    /\ UNCHANGED <<live, backup, robotState, status, pending, waiting,
                   nextMap, faults, sw, nf, as, aliased, channel, call,
                   mqttState, clients>>

AddFloor(id) ==
    /\ ~HasFloor(registry, id)
    /\ Len(registry.floors) < MaxFloors
    /\ registry' = Added(registry, id, FloorName(id))
    /\ UNCHANGED <<live, backup, robotState, status, pending, waiting,
                   nextMap, faults, sw, nf, as, aliased, channel, call,
                   mqttState, clients>>

\* `rm -rf` of the floor's directory: done, or failed, which is logged.
RemoveDir(id, b) ==
    {[dir |-> EmptyDir, used |-> 0]}
    \cup (IF b > 0 THEN {[dir |-> backup[id], used |-> 1]} ELSE {})

\* FloorManager.removeFloor: the registry write, then the directory.
RemoveFloor(id) ==
    /\ registry' = Removed(registry, id)
    /\ \E o \in RemoveDir(id, Budget) :
         /\ backup' = [backup EXCEPT ![id] = o.dir]
         /\ faults' = faults + o.used
    /\ UNCHANGED <<live, robotState, status, pending, waiting, nextMap, sw,
                   nf, as, aliased, channel, call, mqttState, clients>>

\* Widget API: device.deleteFloor refuses the active floor and passes any
\* other id, registered or not, to removeFloor.
DeleteFloor(id) ==
    /\ id # registry.activeFloor
    /\ RemoveFloor(id)

\* ------------------------------------------------------------- the robot
\* The firmware writes the map it is building into the empty live slot.
FirmwareSavesMap ==
    /\ robotState = "cleaning"
    /\ live["last_map"] = NoFile
    /\ nextMap <= MaxFloors + 1
    /\ live' = [f \in LiveFiles |->
                  IF f \in MapFileSet \/ f = "StartPos.data" THEN nextMap ELSE live[f]]
    /\ nextMap' = nextMap + 1
    /\ UNCHANGED <<registry, backup, robotState, status, pending, waiting,
                   faults, sw, nf, as, aliased, channel, call, mqttState,
                   clients>>

RobotFinishes ==
    /\ robotState = "cleaning"
    /\ robotState' \in {"docked", "idle"}
    /\ UNCHANGED <<registry, live, backup, status, pending, waiting, nextMap,
                   faults, sw, nf, as, aliased, channel, call, mqttState,
                   clients>>

\* The statuses _updateVacuumState tells apart: the active and the terminal
\* ones and 'paused', which is neither.
AllStatuses == ActiveStates \cup TerminalStates \cup {"paused"}

\* The robot changes its status on its own or at the user's command.
RobotChanges ==
    /\ robotState' \in AllStatuses \ {robotState}
    /\ UNCHANGED <<registry, live, backup, status, pending, waiting, nextMap,
                   faults, sw, nf, as, aliased, channel, call, mqttState,
                   clients>>

\* ------------------------------------------------------ calls and results
\* The outcome of the call served last, as its caller sees it.
NoCall == [op |-> "none"]

\* --------------------------------------------------------- floor names
\* A floor name as the string it is: a sequence of characters.  The alphabet
\* has an ASCII letter in both cases, another lower-case letter, two digits,
\* the underscore, the blank, and U+212A KELVIN SIGN, a letter outside ASCII
\* whose lower case is the ASCII letter k.
Chars == {"F", "f", "k", "1", "2", "_", " ", "U+212A"}
Names == UNION {[1..n -> Chars] : n \in 0..MaxNameLen}

\* String.prototype.toLowerCase
LowerChar(c) == CASE c = "F" -> "f" [] c = "U+212A" -> "k" [] OTHER -> c
toLowerCase(name) == [i \in 1..Len(name) |-> LowerChar(name[i])]

\* The characters of the class [a-z0-9].
IdChars == {"f", "k", "1", "2"}

\* .replace(/[^a-z0-9]+/g, '_'): every run of other characters becomes one
\* underscore.
RECURSIVE SkipRun(_)
SkipRun(str) ==
    IF str # <<>> /\ Head(str) \notin IdChars THEN SkipRun(Tail(str)) ELSE str
RECURSIVE ReplaceRuns(_)
ReplaceRuns(str) ==
    IF str = <<>> THEN <<>>
    ELSE IF Head(str) \in IdChars THEN <<Head(str)>> \o ReplaceRuns(Tail(str))
    ELSE <<"_">> \o ReplaceRuns(SkipRun(Tail(str)))

\* .replace(/(^_|_$)/g, ''): an underscore at the start and one at the end
\* are dropped.
TrimUnderscores(str) ==
    LET t == IF str # <<>> /\ Head(str) = "_" THEN Tail(str) ELSE str
    IN  IF t # <<>> /\ t[Len(t)] = "_" THEN SubSeq(t, 1, Len(t) - 1) ELSE t

\* An id derivation that does not trim.
DeriveFloorIdUntrimmed(name) == ReplaceRuns(toLowerCase(name))

\* const id = name.toLowerCase().replace(...).replace(...)
DeriveFloorId(name) == TrimUnderscores(ReplaceRuns(toLowerCase(name)))

\* The registry and the floor directories know a floor by its number: floor 1
\* has the id f_1, which the names 'F 1', 'f_1', 'F_1' derive, and floor 2
\* the id k.
IdStrings == <<<<"f", "_", "1">>, <<"k">>>>
NamedFloors == {n \in FloorIds : n <= Len(IdStrings)}
IsFloorId(id) == \E n \in NamedFloors : id = IdStrings[n]
FloorOf(id) == CHOOSE n \in NamedFloors : id = IdStrings[n]

\* The id computed for a name, and again for the id itself.
DeriveCall(name) ==
    /\ call' = [op |-> "deriveId", name |-> name, id |-> DeriveFloorId(name),
                again |-> DeriveFloorId(DeriveFloorId(name))]
    /\ UNCHANGED <<registry, live, backup, robotState, status, pending,
                   waiting, nextMap, faults, sw, nf, as, aliased, channel,
                   mqttState, clients>>

\* ------------------------------------------------- FloorManager's calls
\* FloorManager.renameFloor
RenameFloorCall(id, newName) ==
    /\ IF HasFloor(registry, id)
       THEN /\ registry' = Renamed(registry, id, newName)
            /\ call' = [op |-> "renameFloor", id |-> id, error |-> "none"]
       ELSE /\ registry' = registry
            /\ call' = [op |-> "renameFloor", id |-> id, error |-> "not found"]
    /\ UNCHANGED <<live, backup, robotState, status, pending, waiting,
                   nextMap, faults, sw, nf, as, aliased, channel, mqttState,
                   clients>>

\* A setFloorDock that makes the entry it does not find.
SetFloorDockUpsert(id, hasDock) ==
    /\ HasFloor(registry, id) \/ Len(registry.floors) < MaxFloors
    /\ IF HasFloor(registry, id)
       THEN /\ registry' = Docked(registry, id, hasDock)
            /\ call' = [op |-> "setFloorDock", id |-> id, error |-> "none"]
       ELSE /\ registry' = [registry EXCEPT !.floors =
                               Append(@, [id |-> id, name |-> <<>>, hasDock |-> hasDock])]
            /\ call' = [op |-> "setFloorDock", id |-> id, error |-> "not found"]
    /\ UNCHANGED <<live, backup, robotState, status, pending, waiting,
                   nextMap, faults, sw, nf, as, aliased, channel, mqttState,
                   clients>>

\* FloorManager.setFloorDock
SetFloorDockCall(id, hasDock) ==
    /\ IF HasFloor(registry, id)
       THEN /\ registry' = Docked(registry, id, hasDock)
            /\ call' = [op |-> "setFloorDock", id |-> id, error |-> "none"]
       ELSE /\ registry' = registry
            /\ call' = [op |-> "setFloorDock", id |-> id, error |-> "not found"]
    /\ UNCHANGED <<live, backup, robotState, status, pending, waiting,
                   nextMap, faults, sw, nf, as, aliased, channel, mqttState,
                   clients>>

\* FloorManager.addFloor
AddFloorCall(id, name) ==
    /\ HasFloor(registry, id) \/ Len(registry.floors) < MaxFloors
    /\ IF HasFloor(registry, id)
       THEN /\ registry' = registry
            /\ call' = [op |-> "addFloor", id |-> id, error |-> "already exists"]
       ELSE /\ registry' = Added(registry, id, name)
            /\ call' = [op |-> "addFloor", id |-> id, error |-> "none"]
    /\ UNCHANGED <<live, backup, robotState, status, pending, waiting,
                   nextMap, faults, sw, nf, as, aliased, channel, mqttState,
                   clients>>

\* A removeFloor that lets the failure of `rm -rf` through.
RemoveFloorStrict(id) ==
    /\ registry' = Removed(registry, id)
    /\ \E o \in RemoveDir(id, Budget) :
         /\ backup' = [backup EXCEPT ![id] = o.dir]
         /\ faults' = faults + o.used
         /\ call' = [op |-> "removeFloor", id |-> id, removed |-> o.used = 0,
                     error |-> IF o.used = 0 THEN "none" ELSE "remote"]
    /\ UNCHANGED <<live, robotState, status, pending, waiting, nextMap, sw,
                   nf, as, aliased, channel, mqttState, clients>>

\* FloorManager.removeFloor
RemoveFloorCall(id) ==
    /\ registry' = Removed(registry, id)
    /\ \E o \in RemoveDir(id, Budget) :
         /\ backup' = [backup EXCEPT ![id] = o.dir]
         /\ faults' = faults + o.used
         /\ call' = [op |-> "removeFloor", id |-> id, removed |-> o.used = 0,
                     error |-> "none"]
    /\ UNCHANGED <<live, robotState, status, pending, waiting, nextMap, sw,
                   nf, as, aliased, channel, mqttState, clients>>

\* A saveAsNewFloor that replaces the entry it finds.
SaveAsNewFloorReplacing(args) ==
    LET name == args[1]
        hasDock == IF Len(args) > 1 THEN args[2] ELSE TRUE
        id == DeriveFloorId(name)
    IN  /\ id # <<>>
        /\ IsFloorId(id)
        /\ HasFloor(registry, FloorOf(id)) \/ Len(registry.floors) < MaxFloors
        /\ \E o \in SaveRemote(FloorOf(id), Budget) :
             /\ backup' = [backup EXCEPT ![FloorOf(id)] = o.dir]
             /\ faults' = faults + o.used
             /\ registry' =
                  IF o.ok
                  THEN Register(Removed(registry, FloorOf(id)), FloorOf(id), name, hasDock)
                  ELSE registry
             /\ call' = [op |-> "saveAsNewFloor", args |-> args, name |-> name,
                         id |-> id, error |-> IF o.ok THEN "none" ELSE "remote"]
        /\ UNCHANGED <<live, robotState, status, pending, waiting, nextMap,
                       sw, nf, as, aliased, channel, mqttState, clients>>

\* FloorManager.saveAsNewFloor(name, hasDock = true), args being the arguments
\* given: the id is derived and an empty id rejected, the live map is copied
\* and verified, and only then the floor is registered and made active.
SaveAsNewFloorCall(args) ==
    LET name == args[1]
        hasDock == IF Len(args) > 1 THEN args[2] ELSE TRUE
        id == DeriveFloorId(name)
    IN  IF id = <<>>
        THEN /\ call' = [op |-> "saveAsNewFloor", args |-> args, name |-> name,
                         id |-> id, error |-> "invalid"]
             /\ UNCHANGED <<registry, live, backup, robotState, status,
                            pending, waiting, nextMap, faults, sw, nf, as,
                            aliased, channel, mqttState, clients>>
        ELSE /\ IsFloorId(id)
             /\ HasFloor(registry, FloorOf(id)) \/ Len(registry.floors) < MaxFloors
             /\ \E o \in SaveRemote(FloorOf(id), Budget) :
                  /\ backup' = [backup EXCEPT ![FloorOf(id)] = o.dir]
                  /\ faults' = faults + o.used
                  /\ registry' = IF o.ok THEN Register(registry, FloorOf(id), name, hasDock)
                                 ELSE registry
                  /\ call' = [op |-> "saveAsNewFloor", args |-> args, name |-> name,
                              id |-> id, error |-> IF o.ok THEN "none" ELSE "remote"]
             /\ UNCHANGED <<live, robotState, status, pending, waiting,
                            nextMap, sw, nf, as, aliased, channel, mqttState,
                            clients>>

\* FloorManager.activeFloorHasDock
activeFloorHasDock ==
    IF registry.activeFloor = NULL THEN TRUE
    ELSE IF ~HasFloor(registry, registry.activeFloor) THEN TRUE
    ELSE HasDock(registry.floors[Min(FindFloor(registry, registry.activeFloor))])

\* A returnToDock that sends the robot home whatever the floor.
ReturnToDockAlways(mqtt) ==
    /\ call' = [op |-> "returnToDock", sent |-> <<"home">>, mqtt |-> mqtt]
    /\ UNCHANGED <<registry, live, backup, robotState, status, pending,
                   waiting, nextMap, faults, sw, nf, as, aliased, channel,
                   mqttState, clients>>

\* ValetudoDevice.returnToDock: the commands it sends, over MQTT when that is
\* connected and over REST otherwise.
ReturnToDock(mqtt) ==
    /\ call' = [op |-> "returnToDock",
                sent |-> IF activeFloorHasDock THEN <<"home">> ELSE <<"stop">>,
                mqtt |-> mqtt]
    /\ UNCHANGED <<registry, live, backup, robotState, status, pending,
                   waiting, nextMap, faults, sw, nf, as, aliased, channel,
                   mqttState, clients>>

\* ------------------------------------------------------------ SshManager
\* Settings are strings; a setting that is not given is undefined.
Undefined == "undefined"

\* value || fallback
OrDefault(value, fallback) == IF value = Undefined THEN fallback ELSE value

\* _conn is null, or <<the settings the connection was opened with>>.
NoConn == <<>>

Settings(c) ==
    [host |-> c.host, port |-> c.port, username |-> c.username,
     password |-> c.password, privateKey |-> c.privateKey]

\* SshManager after construction with the device's settings: host, port
\* (settings.ssh_port || 22), username (settings.ssh_user || 'root'),
\* password and private key; no connection yet.
NewChannel ==
    [host |-> "10.0.0.1", port |-> "22", username |-> "root",
     password |-> "secret", privateKey |-> Undefined,
     conn |-> NoConn, connected |-> FALSE]

\* The settings updateConfig is called with.
ConfigInputs ==
    [host : {"10.0.0.1", "10.0.0.2"}, port : {Undefined, "22", "2222"},
     username : {Undefined, "root"}, password : {Undefined, "secret"},
     privateKey : {Undefined, "key"}]

\* SshManager.disconnect
disconnect(c) ==
    IF c.conn # NoConn THEN [c EXCEPT !.conn = NoConn, !.connected = FALSE] ELSE c

\* SshManager.updateConfig: changed compares what it is given with what the
\* manager holds; then every setting is replaced by what was given, a missing
\* port by 22 and a missing username by 'root'.
updateConfig(c, in) ==
    LET changed == \/ in.host # c.host
                   \/ in.port # c.port
                   \/ in.username # c.username
                   \/ in.password # c.password
                   \/ in.privateKey # c.privateKey
        set == [c EXCEPT !.host = in.host,
                         !.port = OrDefault(in.port, "22"),
                         !.username = OrDefault(in.username, "root"),
                         !.password = in.password,
                         !.privateKey = in.privateKey]
    IN  IF changed /\ c.connected THEN disconnect(set) ELSE set

\* onSettings: updateConfig with the settings of the form.
UpdateConfig(in) ==
    /\ channel' = updateConfig(channel, in)
    /\ call' = [op |-> "updateConfig"]
    /\ UNCHANGED <<registry, live, backup, robotState, status, pending,
                   waiting, nextMap, faults, sw, nf, as, aliased, mqttState,
                   clients>>

\* onDiscoveryAvailable and onDiscoveryAddressChanged:
\* this._ssh.updateConfig({ host: newHost }), the other settings not given.
DiscoveryAddress(host) ==
    /\ channel' = updateConfig(channel,
                       [host |-> host, port |-> Undefined, username |-> Undefined,
                        password |-> Undefined, privateKey |-> Undefined])
    /\ call' = [op |-> "discovery", host |-> host]
    /\ UNCHANGED <<registry, live, backup, robotState, status, pending,
                   waiting, nextMap, faults, sw, nf, as, aliased, mqttState,
                   clients>>

\* SshManager._connect: the open connection, or a new one made with the
\* settings held, which becomes ready or reports an error.
connect(c, ready) ==
    IF c.connected /\ c.conn # NoConn THEN c
    ELSE IF ready THEN [c EXCEPT !.conn = <<Settings(c)>>, !.connected = TRUE]
    ELSE [c EXCEPT !.connected = FALSE]

\* What a command can meet: the connection is not made, conn.exec reports an
\* error, the command exits with a code other than 0, or it exits with 0.
Outcomes == {"unreachable", "exec error", "exit 1", "exit 0"}

\* SshManager.exec: [channel, resolved] for an outcome.  With an open
\* connection no connection is made, so none can fail.
exec(c, outcome) ==
    [channel |-> connect(c, outcome # "unreachable"),
     resolved |-> outcome = "exit 0"]

Meets(outcome) ==
    outcome = "unreachable" => ~(channel.connected /\ channel.conn # NoConn)

\* A command sent with SshManager.exec (copyFile, removeFile, readFile ...).
ExecCall(outcome) ==
    /\ Meets(outcome)
    /\ channel' = exec(channel, outcome).channel
    /\ call' = [op |-> "exec", outcome |-> outcome,
                result |-> IF exec(channel, outcome).resolved THEN "resolved"
                           ELSE "rejected"]
    /\ UNCHANGED <<registry, live, backup, robotState, status, pending,
                   waiting, nextMap, faults, sw, nf, as, aliased, mqttState,
                   clients>>

\* A fileExists that lets a failure to connect through.
FileExistsThrows(outcome) ==
    /\ Meets(outcome)
    /\ channel' = exec(channel, outcome).channel
    /\ call' = [op |-> "fileExists", outcome |-> outcome,
                result |-> IF exec(channel, outcome).resolved THEN "true"
                           ELSE IF outcome = "unreachable" THEN "rejected"
                           ELSE "false"]
    /\ UNCHANGED <<registry, live, backup, robotState, status, pending,
                   waiting, nextMap, faults, sw, nf, as, aliased, mqttState,
                   clients>>

\* SshManager.fileExists: `test -e`, true when it resolves, false in the catch.
FileExistsCall(outcome) ==
    /\ Meets(outcome)
    /\ channel' = exec(channel, outcome).channel
    /\ call' = [op |-> "fileExists", outcome |-> outcome,
                result |-> IF exec(channel, outcome).resolved THEN "true" ELSE "false"]
    /\ UNCHANGED <<registry, live, backup, robotState, status, pending,
                   waiting, nextMap, faults, sw, nf, as, aliased, mqttState,
                   clients>>

\* SshManager.reboot: the command's failure is swallowed and the connection
\* is forgotten.
RebootCall(outcome) ==
    /\ Meets(outcome)
    /\ channel' = [exec(channel, outcome).channel EXCEPT !.conn = NoConn,
                                                         !.connected = FALSE]
    /\ call' = [op |-> "reboot", outcome |-> outcome, result |-> "resolved"]
    /\ UNCHANGED <<registry, live, backup, robotState, status, pending,
                   waiting, nextMap, faults, sw, nf, as, aliased, mqttState,
                   clients>>

\* The connection's 'close' event.
ConnClose ==
    /\ channel.conn # NoConn
    /\ channel' = [channel EXCEPT !.conn = NoConn, !.connected = FALSE]
    /\ call' = [op |-> "close"]
    /\ UNCHANGED <<registry, live, backup, robotState, status, pending,
                   waiting, nextMap, faults, sw, nf, as, aliased, mqttState,
                   clients>>

\* The connection's 'error' event.
ConnError ==
    /\ channel.conn # NoConn
    /\ channel' = [channel EXCEPT !.connected = FALSE]
    /\ call' = [op |-> "error"]
    /\ UNCHANGED <<registry, live, backup, robotState, status, pending,
                   waiting, nextMap, faults, sw, nf, as, aliased, mqttState,
                   clients>>

\* ------------------------------------------------- connections in the making
\* The ssh2 Client objects created by _connect, in order of creation: each is
\* "connecting" until it is ready, "open" from then on, "ending" once end()
\* was called on it or it reported an error, and "closed" after its 'close'
\* event.  `held` says whether this._conn is this object.
MaxClients == 3

ClientIds == 1..Len(clients)

\* this._conn = x for the client i (0 for null).
Hold(cs, i) == [k \in 1..Len(cs) |-> [cs[k] EXCEPT !.held = (k = i)]]

\* SshManager._connect up to conn.connect(connectOpts), as the first step of
\* exec: the open connection is resolved at once, otherwise a new Client is
\* made with the settings held and starts to connect.
ConnectCall ==
    /\ Len(clients) < MaxClients
    /\ IF channel.connected /\ channel.conn # NoConn
       THEN /\ call' = [op |-> "connect", made |-> FALSE, n |-> Len(clients)]
            /\ UNCHANGED clients
       ELSE /\ clients' = Append(clients, [state |-> "connecting",
                                           made |-> Settings(channel),
                                           held |-> FALSE])
            /\ call' = [op |-> "connect", made |-> TRUE, n |-> Len(clients)]
    /\ UNCHANGED <<registry, live, backup, robotState, status, pending,
                   waiting, nextMap, faults, sw, nf, as, aliased, channel,
                   mqttState>>

\* conn.on('ready'): this._conn = conn, this._connected = true.
ClientReady(i) ==
    /\ clients[i].state = "connecting"
    /\ clients' = Hold([clients EXCEPT ![i].state = "open"], i)
    /\ channel' = [channel EXCEPT !.conn = <<clients[i].made>>, !.connected = TRUE]
    /\ call' = [op |-> "ready", client |-> i]
    /\ UNCHANGED <<registry, live, backup, robotState, status, pending,
                   waiting, nextMap, faults, sw, nf, as, aliased, mqttState>>

\* conn.on('error'): this._connected = false; the client goes down.
ClientError(i) ==
    /\ clients[i].state \in {"connecting", "open"}
    /\ clients' = [clients EXCEPT ![i].state = "ending"]
    /\ channel' = [channel EXCEPT !.connected = FALSE]
    /\ call' = [op |-> "error", client |-> i]
    /\ UNCHANGED <<registry, live, backup, robotState, status, pending,
                   waiting, nextMap, faults, sw, nf, as, aliased, mqttState>>

\* conn.on('close') of a client that was ended, that failed, or that the
\* robot closed: this._connected = false, this._conn = null.
ClientClose(i) ==
    /\ clients[i].state \in {"open", "ending"}
    /\ clients' = Hold([clients EXCEPT ![i].state = "closed"], 0)
    /\ channel' = [channel EXCEPT !.conn = NoConn, !.connected = FALSE]
    /\ call' = [op |-> "close", client |-> i]
    /\ UNCHANGED <<registry, live, backup, robotState, status, pending,
                   waiting, nextMap, faults, sw, nf, as, aliased, mqttState>>

\* SshManager.disconnect: end() on the connection held, which is forgotten.
DisconnectCall ==
    /\ channel.conn # NoConn
    /\ clients' = Hold([k \in 1..Len(clients) |->
                          IF clients[k].held
                          THEN [clients[k] EXCEPT !.state = "ending"]
                          ELSE clients[k]], 0)
    /\ channel' = disconnect(channel)
    /\ call' = [op |-> "disconnect"]
    /\ UNCHANGED <<registry, live, backup, robotState, status, pending,
                   waiting, nextMap, faults, sw, nf, as, aliased, mqttState>>

\* ------------------------------------------------------------ map messages
\* The segment ids a map message can carry: a number or a string, each with
\* the text String() gives for it.
SegmentIdValues ==
    {[t |-> "number", v |-> "1"], [t |-> "number", v |-> "2"],
     [t |-> "string", v |-> "1"]}

\* String(layer.metaData.segmentId)
String(x) == x.v

\* A layer of data.layers: its type, whether it has metaData, and
\* metaData.active and metaData.segmentId.  Every segment layer with metaData
\* that is active or not, one whose active is the string 'true', one without
\* metaData, and a layer of another type.
Layers ==
    [type : {"segment"}, metaData : {TRUE},
     active : {"true", "false"}, segmentId : SegmentIdValues]
    \cup {[type |-> "segment", metaData |-> TRUE, active |-> "'true'",
           segmentId |-> [t |-> "number", v |-> "1"]],
          [type |-> "segment", metaData |-> FALSE, active |-> "true",
           segmentId |-> [t |-> "number", v |-> "1"]],
          [type |-> "floor", metaData |-> TRUE, active |-> "true",
           segmentId |-> [t |-> "number", v |-> "1"]]}

MaxLayers == 2
MaxMessages == 4

\* The payloads of MapData/map-data-hass: text that is no JSON, the JSON
\* null, an object without layers, an object whose layers is a number, and
\* an object with a list of layers.
Payloads ==
    {[kind |-> k, layers |-> <<>>] :
       k \in {"invalid", "null", "no layers", "bad layers"}}
    \cup {[kind |-> "layers", layers |-> l] :
            l \in UNION {[1..n -> Layers] : n \in 0..MaxLayers}}

\* JSON.parse(payload), data.layers and the for-of over it complete without
\* throwing: not for text that is no JSON, not for null (data.layers throws),
\* not for layers that cannot be iterated.
Parses(payload) == payload.kind \in {"no layers", "layers"}

Has(ids, id) == \E k \in 1..Len(ids) : ids[k] = id

\* newActiveIds after the layers from k on, a Set in insertion order.
RECURSIVE newActiveIds(_, _, _)
newActiveIds(layers, k, ids) ==
    IF k > Len(layers) THEN ids
    ELSE LET layer == layers[k]
             id == String(layer.segmentId)
         IN  IF /\ layer.type = "segment"
                /\ layer.metaData
                /\ layer.active = "true"
                /\ ~Has(ids, id)
             THEN newActiveIds(layers, k + 1, Append(ids, id))
             ELSE newActiveIds(layers, k + 1, ids)

\* The events of one loop: for every id of `ids` that `others` does not
\* have, in the order of `ids`.
RECURSIVE EmitFor(_, _, _, _)
EmitFor(type, ids, others, k) ==
    IF k > Len(ids) THEN <<>>
    ELSE (IF Has(others, ids[k]) THEN <<>> ELSE <<[type |-> type, id |-> ids[k]]>>)
         \o EmitFor(type, ids, others, k + 1)

\* segment_started for every new id, whether it was active before or not.
StartedAll(previousIds, newIds) ==
    EmitFor("segment_started", newIds, <<>>, 1)

\* for (const id of newActiveIds) if (!previousIds.has(id)) emit('segment_started')
Started(previousIds, newIds) ==
    EmitFor("segment_started", newIds, previousIds, 1)

\* for (const id of previousIds) if (!newActiveIds.has(id)) emit('segment_finished')
Finished(previousIds, newIds) ==
    EmitFor("segment_finished", previousIds, newIds, 1)

\* new ValetudoMqtt: no active segment, nothing emitted.
NewMqtt == [active |-> <<>>, emitted |-> <<>>, log |-> <<>>, n |-> 0]

\* ValetudoMqtt._parseMapData: the state after the message.  The catch
\* leaves _activeSegmentIds as it was; `emitted` holds the events of this
\* message and `log` every event so far.
parseMapData(m, payload) ==
    IF ~Parses(payload)
    THEN [m EXCEPT !.emitted = <<>>, !.n = @ + 1]
    ELSE LET new == newActiveIds(payload.layers, 1, <<>>)
             ev == Started(m.active, new) \o Finished(m.active, new)
         IN  [active |-> new, emitted |-> ev, log |-> m.log \o ev, n |-> m.n + 1]

\* A message on MapData/map-data-hass handed to _parseMapData.
MapData(payload) ==
    /\ mqttState.n < MaxMessages
    /\ mqttState' = parseMapData(mqttState, payload)
    /\ call' = [op |-> "mapData", parsed |-> Parses(payload)]
    /\ UNCHANGED <<registry, live, backup, robotState, status, pending,
                   waiting, nextMap, faults, sw, nf, as, aliased, channel,
                   clients>>

\* --------------------------------------------------------- specification
\* After onInit: _initFirstFloor has registered 'Floor 1' as the active floor
\* (or the store write failed and the registry is empty) and has saved the
\* live map as its backup, or has not when SSH was not available.
FirstFloor == [id |-> 1, name |-> FloorName(1), hasDock |-> TRUE]

Start(injected) ==
    /\ registry \in {EmptyStore, [floors |-> <<FirstFloor>>, activeFloor |-> 1]}
    /\ live \in {[f \in LiveFiles |->
                    IF f \in MapFileSet \/ f = "StartPos.data" THEN FirstMap
                    ELSE IF f = x THEN OrphanMap ELSE NoFile] :
                 x \in {"none", "user_map0", "last_map.bak"}}
    /\ \E first \in {EmptyDir, FullDir(FirstMap)},
          orphan \in {EmptyDir, FullDir(OrphanMap)} :
         /\ first = EmptyDir \/ registry # EmptyStore
         /\ backup = [d \in Dirs |->
                        IF d = UnclaimedDir THEN orphan
                        ELSE IF d = 1 THEN first ELSE EmptyDir]
    /\ robotState = "docked"
    /\ status = "docked"
    /\ pending = NoPending
    /\ waiting = FALSE
    /\ nextMap = FirstMap + 1
    /\ faults = injected
    /\ sw = SwitchIdle
    /\ nf = NewFloorIdle
    /\ as = AutoSaveIdle
    /\ aliased \in BOOLEAN
    /\ channel = NewChannel
    /\ call = NoCall
    /\ mqttState = NewMqtt
    /\ clients = <<>>

Init == Start(0)

\* A handler that has returned or thrown is observed in its "done" state and
\* then forgotten, before anything else runs.
NoneDone == sw.pc # "done" /\ nf.pc # "done" /\ as.pc # "done"

Return ==
    /\ ~NoneDone
    /\ sw' = IF sw.pc = "done" THEN SwitchIdle ELSE sw
    /\ nf' = IF nf.pc = "done" THEN NewFloorIdle ELSE nf
    /\ as' = IF as.pc = "done" THEN AutoSaveIdle ELSE as
    /\ UNCHANGED <<registry, live, backup, robotState, status, pending,
                   waiting, nextMap, faults, aliased, channel, call,
                   mqttState, clients>>

\* The user asks for one floor operation at a time: a switch or a new floor is
\* requested while no other switch or new-floor handler is running.
Quiet == sw.pc = "idle" /\ nf.pc = "idle"

\* The dock toggle and the flow card's dock argument as used here.
DockInputs == {TRUE}

Next ==
    \/ \E f \in FloorIds : NoneDone /\ Quiet /\ SwitchRequest(f)
    \/ \E d \in DockInputs : NoneDone /\ Quiet /\ NewFloorRequest(d)
    \/ \E id \in FloorIds, d \in DockInputs : NoneDone /\ Quiet /\ SaveFloorCard(id, d)
    \/ NoneDone /\ SwitchBegin
    \/ NoneDone /\ SwitchSave1
    \/ NoneDone /\ SwitchCheck
    \/ NoneDone /\ SwitchStop
    \/ NoneDone /\ SwitchSave2
    \/ NoneDone /\ SwitchRemove
    \/ NoneDone /\ SwitchRestore
    \/ NoneDone /\ SwitchPatch
    \/ NoneDone /\ SwitchReboot
    \/ \E r \in BOOLEAN : NoneDone /\ SwitchProbe(r)
    \/ NoneDone /\ NewFloorFirst
    \/ NoneDone /\ NewFloorBackup
    \/ NoneDone /\ NewFloorReset
    \/ NoneDone /\ NewFloorStart
    \/ \E g \in BOOLEAN : NoneDone /\ AutoSavePoll(g)
    \/ NoneDone /\ AutoSaveSave
    \/ NoneDone /\ FirmwareSavesMap
    \/ NoneDone /\ RobotFinishes
    \/ NoneDone /\ DeliverStatus
    \/ NoneDone /\ TryFloorBackup
    \/ Return

Spec == Init /\ [][Next]_vars

\* The handlers as the event loop runs them: a request is served whenever it
\* arrives, whatever else is in progress.  No map is left over from earlier
\* sessions, no remote command fails and the robot answers the first probe
\* after a reboot.
InitConc ==
    /\ Start(MaxFaults)
    /\ backup[UnclaimedDir] = EmptyDir
    /\ \A f \in LiveFiles : live[f] \in {NoFile, FirstMap}

NextConc ==
    \/ \E f \in FloorIds : NoneDone /\ SwitchRequest(f)
    \/ \E d \in DockInputs : NoneDone /\ NewFloorRequest(d)
    \/ NoneDone /\ SwitchBegin
    \/ NoneDone /\ SwitchSave1
    \/ NoneDone /\ SwitchCheck
    \/ NoneDone /\ SwitchStop
    \/ NoneDone /\ SwitchSave2
    \/ NoneDone /\ SwitchRemove
    \/ NoneDone /\ SwitchRestore
    \/ NoneDone /\ SwitchPatch
    \/ NoneDone /\ SwitchReboot
    \/ NoneDone /\ SwitchProbe(TRUE)
    \/ NoneDone /\ NewFloorFirst
    \/ NoneDone /\ NewFloorBackup
    \/ NoneDone /\ NewFloorReset
    \/ NoneDone /\ NewFloorStart
    \/ \E g \in BOOLEAN : NoneDone /\ AutoSavePoll(g)
    \/ NoneDone /\ AutoSaveSave
    \/ NoneDone /\ FirmwareSavesMap
    \/ NoneDone /\ RobotFinishes
    \/ NoneDone /\ DeliverStatus
    \/ NoneDone /\ TryFloorBackup
    \/ Return

SpecConc == InitConc /\ [][NextConc]_vars

\* _tryRecoverFloorMap on its own: a switch stands at step 2 with a registered
\* target that has no last_map in its directory.  The other registered floor
\* may have a backup, a directory of no registered floor may hold a whole map
\* or only a dock position, and the live slot may hold a firmware map and any
\* of the alternate copies of last_map, each with a token of its own.
SecondFloor == [id |-> 2, name |-> FloorName(2), hasDock |-> TRUE]
FirmwareMap == OrphanMap + 1
AlternateMap(k) == OrphanMap + 1 + k
DockOnly(t) == [f \in MapFileSet |-> IF f = "ChargerPos.data" THEN t ELSE NoFile]

InitRecover ==
    /\ \E a \in {1, 2} :
         /\ registry = [floors |-> <<FirstFloor, SecondFloor>>, activeFloor |-> a]
         /\ sw = [SwitchIdle EXCEPT !.pc = "check", !.target = 3 - a,
                                    !.config = registry, !.saveConfig = registry]
         /\ backup \in [Dirs -> {EmptyDir, DockOnly(FirstMap), FullDir(FirstMap),
                                 DockOnly(OrphanMap), FullDir(OrphanMap)}]
         /\ backup[3 - a] \in {EmptyDir, DockOnly(FirstMap)}
         /\ backup[a] \in {EmptyDir, FullDir(FirstMap)}
         /\ \A d \in Dirs \ {1, 2} :
               backup[d] \in {EmptyDir, DockOnly(OrphanMap), FullDir(OrphanMap)}
    /\ \E fw \in BOOLEAN, alt \in SUBSET (1..Len(BACKUP_FILES)) :
         live = [f \in LiveFiles |->
                   IF f \in MapFileSet \/ f = "StartPos.data" THEN FirstMap
                   ELSE IF f = "user_map0" THEN (IF fw THEN FirmwareMap ELSE NoFile)
                   ELSE LET k == CHOOSE i \in 1..Len(BACKUP_FILES) : BACKUP_FILES[i] = f
                        IN  IF k \in alt THEN AlternateMap(k) ELSE NoFile]
    /\ robotState = "docked"
    /\ status = "docked"
    /\ pending = NoPending
    /\ waiting = FALSE
    /\ nextMap = FirstMap + 1
    /\ faults \in {0, MaxFaults}
    /\ nf = NewFloorIdle
    /\ as = AutoSaveIdle
    /\ aliased \in BOOLEAN
    /\ channel = NewChannel
    /\ call = NoCall
    /\ mqttState = NewMqtt
    /\ clients = <<>>

NextRecover ==
    \/ NoneDone /\ SwitchCheck
    \/ Return

SpecRecover == InitRecover /\ [][NextRecover]_vars

\* The new-floor mapping run and its auto-save with a robot that passes
\* through any of its statuses: one floor operation is requested at a time,
\* the robot answers the first probe after a reboot, no map is left over from
\* earlier sessions.
NextAuto ==
    \/ \E f \in FloorIds : NoneDone /\ Quiet /\ SwitchRequest(f)
    \/ \E d \in DockInputs : NoneDone /\ Quiet /\ NewFloorRequest(d)
    \/ NoneDone /\ SwitchBegin
    \/ NoneDone /\ SwitchSave1
    \/ NoneDone /\ SwitchCheck
    \/ NoneDone /\ SwitchStop
    \/ NoneDone /\ SwitchSave2
    \/ NoneDone /\ SwitchRemove
    \/ NoneDone /\ SwitchRestore
    \/ NoneDone /\ SwitchPatch
    \/ NoneDone /\ SwitchReboot
    \/ NoneDone /\ SwitchProbe(TRUE)
    \/ NoneDone /\ NewFloorFirst
    \/ NoneDone /\ NewFloorBackup
    \/ NoneDone /\ NewFloorReset
    \/ NoneDone /\ NewFloorStart
    \/ \E g \in BOOLEAN : NoneDone /\ AutoSavePoll(g)
    \/ NoneDone /\ AutoSaveSave
    \/ NoneDone /\ FirmwareSavesMap
    \/ NoneDone /\ RobotChanges
    \/ NoneDone /\ DeliverStatus
    \/ Return

InitAuto ==
    /\ Start(0)
    /\ backup[UnclaimedDir] = EmptyDir
    /\ \A f \in LiveFiles : live[f] \in {NoFile, FirstMap}

SpecAuto == InitAuto /\ [][NextAuto]_vars

\* _initFirstFloor, which onInit awaits after the listeners are registered:
\* addFloor and setFloorDock write 'Floor 1' into the empty registry, a later
\* store write makes it the active floor.  A rejected write ends it (the
\* error is logged), so the second step may never come.
InitFirstFloorAdd ==
    /\ registry = EmptyStore
    /\ registry' = [floors |-> <<FirstFloor>>, activeFloor |-> NULL]
    /\ UNCHANGED <<live, backup, robotState, status, pending, waiting,
                   nextMap, faults, sw, nf, as, aliased, channel, call,
                   mqttState, clients>>

InitFirstFloorActive ==
    /\ registry = [floors |-> <<FirstFloor>>, activeFloor |-> NULL]
    /\ registry' = MarkActive(registry, FirstFloor.id)
    /\ UNCHANGED <<live, backup, robotState, status, pending, waiting,
                   nextMap, faults, sw, nf, as, aliased, channel, call,
                   mqttState, clients>>

\* The device from the start of _initFirstFloor on, with the new-floor
\* workflow and the robot's mapping run.
InitBoot ==
    /\ Start(0)
    /\ registry = EmptyStore
    /\ backup[UnclaimedDir] = EmptyDir
    /\ \A f \in LiveFiles : live[f] \in {NoFile, FirstMap}

NextBoot ==
    \/ NoneDone /\ InitFirstFloorAdd
    \/ NoneDone /\ InitFirstFloorActive
    \/ \E d \in DockInputs : NoneDone /\ Quiet /\ NewFloorRequest(d)
    \/ NoneDone /\ NewFloorFirst
    \/ NoneDone /\ NewFloorBackup
    \/ NoneDone /\ NewFloorReset
    \/ NoneDone /\ NewFloorStart
    \/ \E g \in BOOLEAN : NoneDone /\ AutoSavePoll(g)
    \/ NoneDone /\ AutoSaveSave
    \/ NoneDone /\ FirmwareSavesMap
    \/ NoneDone /\ RobotFinishes
    \/ NoneDone /\ DeliverStatus
    \/ NoneDone /\ TryFloorBackup
    \/ Return

SpecBoot == InitBoot /\ [][NextBoot]_vars

\* The registry's mutators called while the workflows run: a rename, a dock
\* change, an add or a delete is served whenever it is called, also while a
\* switch or a new-floor run is suspended on a remote step.  No remote command
\* fails, segments are seen at the first poll, and the store hands out a copy
\* of the registry, so that a suspended handler holds the value it has read.
InitStore ==
    /\ Start(MaxFaults)
    /\ ~aliased
    /\ backup[UnclaimedDir] = EmptyDir
    /\ \A f \in LiveFiles : live[f] \in {NoFile, FirstMap}

NextStore ==
    \/ \E f \in FloorIds : NoneDone /\ Quiet /\ SwitchRequest(f)
    \/ \E d \in DockInputs : NoneDone /\ Quiet /\ NewFloorRequest(d)
    \/ \E id \in FloorIds : NoneDone /\ RenameFloor(id, RenamedName(id))
    \/ \E id \in FloorIds : NoneDone /\ SetFloorDock(id, FALSE)
    \/ \E id \in FloorIds : NoneDone /\ AddFloor(id)
    \/ \E id \in FloorIds : NoneDone /\ DeleteFloor(id)
    \/ NoneDone /\ SwitchBegin
    \/ NoneDone /\ SwitchSave1
    \/ NoneDone /\ SwitchCheck
    \/ NoneDone /\ SwitchStop
    \/ NoneDone /\ SwitchSave2
    \/ NoneDone /\ SwitchRemove
    \/ NoneDone /\ SwitchRestore
    \/ NoneDone /\ SwitchPatch
    \/ NoneDone /\ SwitchReboot
    \/ NoneDone /\ SwitchProbe(TRUE)
    \/ NoneDone /\ NewFloorFirst
    \/ NoneDone /\ NewFloorBackup
    \/ NoneDone /\ NewFloorReset
    \/ NoneDone /\ NewFloorStart
    \/ NoneDone /\ AutoSavePoll(TRUE)
    \/ NoneDone /\ AutoSaveSave
    \/ NoneDone /\ FirmwareSavesMap
    \/ NoneDone /\ RobotFinishes
    \/ NoneDone /\ DeliverStatus
    \/ Return

SpecStore == InitStore /\ [][NextStore]_vars

\* The floor operations a user has, one at a time: the new-floor button, the
\* 'save_floor' card, a switch, a rename and a delete are requested while no
\* other floor operation runs.  No remote command fails and segments are
\* seen at the first poll.
NextFloors ==
    \/ \E f \in FloorIds : NoneDone /\ Quiet /\ SwitchRequest(f)
    \/ \E d \in DockInputs : NoneDone /\ Quiet /\ NewFloorRequest(d)
    \/ \E id \in FloorIds, d \in DockInputs : NoneDone /\ Quiet /\ SaveFloorCard(id, d)
    \/ \E id \in FloorIds : NoneDone /\ Quiet /\ RenameFloor(id, RenamedName(id))
    \/ \E id \in FloorIds : NoneDone /\ Quiet /\ DeleteFloor(id)
    \/ NoneDone /\ SwitchBegin
    \/ NoneDone /\ SwitchSave1
    \/ NoneDone /\ SwitchCheck
    \/ NoneDone /\ SwitchStop
    \/ NoneDone /\ SwitchSave2
    \/ NoneDone /\ SwitchRemove
    \/ NoneDone /\ SwitchRestore
    \/ NoneDone /\ SwitchPatch
    \/ NoneDone /\ SwitchReboot
    \/ NoneDone /\ SwitchProbe(TRUE)
    \/ NoneDone /\ NewFloorFirst
    \/ NoneDone /\ NewFloorBackup
    \/ NoneDone /\ NewFloorReset
    \/ NoneDone /\ NewFloorStart
    \/ NoneDone /\ AutoSavePoll(TRUE)
    \/ NoneDone /\ AutoSaveSave
    \/ NoneDone /\ FirmwareSavesMap
    \/ NoneDone /\ RobotFinishes
    \/ NoneDone /\ DeliverStatus
    \/ Return

SpecFloors == InitStore /\ [][NextFloors]_vars

\* FloorManager's registry calls, called one after another on a registry
\* that starts empty; a remote command may fail.  Names are strings here and
\* an entry's id is the number of the id its name derives.
EntryNames == {<<"F", " ", "1">>, <<"k">>}
SaveNames == {<<"F", " ", "1">>, <<"f", "_", "1">>, <<"k">>, <<" ", "_">>}

\* The same with no failure left to inject.
InitDock ==
    /\ Start(MaxFaults)
    /\ backup[UnclaimedDir] = EmptyDir
    /\ \A f \in LiveFiles : live[f] \in {NoFile, FirstMap}

InitRegistry ==
    /\ Start(0)
    /\ registry = EmptyStore
    /\ backup[UnclaimedDir] = EmptyDir
    /\ \A f \in LiveFiles : live[f] \in {NoFile, FirstMap}

NextRegistry ==
    \/ \E id \in FloorIds, name \in EntryNames : AddFloorCall(id, name)
    \/ \E id \in FloorIds, name \in EntryNames : RenameFloorCall(id, name)
    \/ \E id \in FloorIds, d \in BOOLEAN : SetFloorDockCall(id, d)
    \/ \E id \in FloorIds : RemoveFloorCall(id)
    \/ \E name \in SaveNames : SaveAsNewFloorCall(<<name>>)
    \/ \E name \in SaveNames, d \in BOOLEAN : SaveAsNewFloorCall(<<name, d>>)

SpecRegistry == InitRegistry /\ [][NextRegistry]_vars

\* returnToDock at any moment between registry changes, saves and floor
\* switches, which leave floors without a hasDock field (addFloor), without
\* a dock (setFloorDock) and removed (deleteFloor), with the store handing
\* out the stored object or a copy.  No remote command fails.
NextDock ==
    \/ \E m \in BOOLEAN : ReturnToDock(m)
    \/ \E id \in FloorIds : Quiet /\ AddFloor(id)
    \/ \E id \in FloorIds : Quiet /\ SetFloorDock(id, FALSE)
    \/ \E id \in FloorIds : DeleteFloor(id)
    \/ \E id \in FloorIds, d \in DockInputs : Quiet /\ SaveFloorCard(id, d)
    \/ \E f \in FloorIds : Quiet /\ SwitchRequest(f)
    \/ SwitchBegin
    \/ SwitchSave1
    \/ SwitchCheck
    \/ SwitchStop
    \/ SwitchSave2
    \/ SwitchRemove
    \/ SwitchRestore
    \/ SwitchPatch
    \/ SwitchReboot
    \/ SwitchProbe(TRUE)
    \/ Return

SpecDock == InitDock /\ [][NextDock]_vars

\* Floor switches while the robot changes its status at any moment: floors
\* are saved by the 'save_floor' card on a registry that starts empty, one
\* switch runs at a time, and a remote command may fail.
NextStop ==
    \/ \E id \in FloorIds, d \in DockInputs : Quiet /\ SaveFloorCard(id, d)
    \/ \E f \in FloorIds : Quiet /\ SwitchRequest(f)
    \/ SwitchBegin
    \/ SwitchSave1
    \/ SwitchCheck
    \/ SwitchStop
    \/ SwitchSave2
    \/ SwitchRemove
    \/ SwitchRestore
    \/ SwitchPatch
    \/ SwitchReboot
    \/ \E r \in BOOLEAN : SwitchProbe(r)
    \/ RobotChanges
    \/ Return

SpecStop == InitRegistry /\ [][NextStop]_vars

\* The id derivation on every name of the alphabet, and saveAsNewFloor called
\* with the names that derive no id and with the name that is a KELVIN SIGN.
\* No floor is registered at first and no remote command fails.
InvalidNames == {n \in Names : DeriveFloorId(n) = <<>>}

InitNames ==
    /\ InitDock
    /\ registry = EmptyStore
    /\ ~aliased

NextNames ==
    \/ \E name \in Names : DeriveCall(name)
    \/ \E name \in InvalidNames \cup {<<"U+212A">>} : SaveAsNewFloorCall(<<name>>)

SpecNames == InitNames /\ [][NextNames]_vars

\* The SshManager on its own: commands, setting changes and the events of
\* its connection in any order.
NextChannel ==
    \/ \E in \in ConfigInputs : UpdateConfig(in)
    \/ \E h \in {"10.0.0.1", "10.0.0.2"} : DiscoveryAddress(h)
    \/ \E o \in Outcomes : ExecCall(o)
    \/ \E o \in Outcomes : FileExistsCall(o)
    \/ \E o \in Outcomes : RebootCall(o)
    \/ ConnClose
    \/ ConnError

SpecChannel == InitRegistry /\ [][NextChannel]_vars

\* The SshManager with its connections in the making: commands that call
\* _connect, the events of every client, and disconnect, in any order.
NextClients ==
    \/ ConnectCall
    \/ \E i \in ClientIds : ClientReady(i)
    \/ \E i \in ClientIds : ClientError(i)
    \/ \E i \in ClientIds : ClientClose(i)
    \/ DisconnectCall

SpecClients == InitRegistry /\ [][NextClients]_vars

\* The ValetudoMqtt on its own: map messages of every kind, one after another.
NextMqtt == \E p \in Payloads : MapData(p)

SpecMqtt == InitRegistry /\ [][NextMqtt]_vars

\* A switch and a new-floor run with its auto-save, one floor operation at a
\* time, with a robot that may stay unreachable after the reboot and a map
\* that may show no segments.  Every remote call returns and every timer
\* fires: each step of a handler that is in progress is eventually taken.
NextTerm ==
    \/ \E f \in FloorIds : NoneDone /\ Quiet /\ SwitchRequest(f)
    \/ \E d \in DockInputs : NoneDone /\ Quiet /\ NewFloorRequest(d)
    \/ NoneDone /\ SwitchBegin
    \/ NoneDone /\ SwitchSave1
    \/ NoneDone /\ SwitchCheck
    \/ NoneDone /\ SwitchStop
    \/ NoneDone /\ SwitchSave2
    \/ NoneDone /\ SwitchRemove
    \/ NoneDone /\ SwitchRestore
    \/ NoneDone /\ SwitchPatch
    \/ NoneDone /\ SwitchReboot
    \/ \E r \in BOOLEAN : NoneDone /\ SwitchProbe(r)
    \/ NoneDone /\ NewFloorFirst
    \/ NoneDone /\ NewFloorBackup
    \/ NoneDone /\ NewFloorReset
    \/ NoneDone /\ NewFloorStart
    \/ \E g \in BOOLEAN : NoneDone /\ AutoSavePoll(g)
    \/ NoneDone /\ AutoSaveSave
    \/ NoneDone /\ FirmwareSavesMap
    \/ NoneDone /\ RobotFinishes
    \/ NoneDone /\ DeliverStatus
    \/ Return

FairTerm ==
    /\ InitStore /\ [][NextTerm]_vars
    /\ SF_vars(NoneDone /\ SwitchBegin)
    /\ SF_vars(NoneDone /\ (SwitchSave1 \/ SwitchSave2))
    /\ SF_vars(NoneDone /\ SwitchCheck)
    /\ SF_vars(NoneDone /\ SwitchStop)
    /\ SF_vars(NoneDone /\ (SwitchRemove \/ SwitchRestore))
    /\ SF_vars(NoneDone /\ (SwitchPatch \/ SwitchReboot))
    /\ SF_vars(\E r \in BOOLEAN : NoneDone /\ SwitchProbe(r))
    /\ SF_vars(\E g \in BOOLEAN : NoneDone /\ AutoSavePoll(g))
    /\ SF_vars(NoneDone /\ AutoSaveSave)
    /\ WF_vars(Return)

\* The timers of the segment wait fire and a finished handler returns.
FairAuto ==
    /\ SpecAuto
    /\ SF_vars(\E g \in BOOLEAN : NoneDone /\ AutoSavePoll(g))
    /\ SF_vars(NoneDone /\ AutoSaveSave)
    /\ WF_vars(Return)

TypeOK ==
    /\ registry.activeFloor \in FloorIds \cup {NULL}
    /\ \A i \in 1..Len(registry.floors) : registry.floors[i].id \in FloorIds
    /\ faults \in 0..MaxFaults
    /\ sw.i \in 0..MAX_POLL_ATTEMPTS
    /\ as.n \in 0..MaxSegPolls

\* ------------------------------------------------------------ properties
SwitchSteps == {"save1", "check", "stop", "save2", "remove", "restore",
                "patch", "reboot", "wait"}
NewFloorSteps == {"first", "backup", "reset", "start"}

\* A step of a save into directory d wrote the registry only with last_map
\* in d afterwards and with a map file in the live slot to copy.
SaveCommits(d) ==
    registry' # registry =>
        /\ backup'[d]["last_map"] # NoFile
        /\ \E f \in MapFileSet : live[f] # NoFile

\* C1: saveCurrentFloor and saveAsNewFloor change the registry only after
\* last_map is verified in the floor's backup directory; a save that fails (no
\* live map file, last_map missing after the copy, a failed remote command)
\* leaves the registry exactly as it was.
C1_SaveCommitsOnlyVerified ==
    [][/\ (SwitchSave1 \/ SwitchSave2) =>
              /\ SaveCommits(sw.config.activeFloor)
              /\ sw'.soft # sw.soft => registry' = registry
       /\ NewFloorFirst =>
              /\ SaveCommits(DeriveId(FloorName(1)))
              /\ nf'.result = "failed" /\ nf'.saved = NULL => registry' = registry
       /\ NewFloorBackup =>
              /\ SaveCommits(nf.activeId)
              /\ nf'.result = "failed" /\ nf'.saved = NULL => registry' = registry
       /\ AutoSaveSave =>
              /\ SaveCommits(DeriveId(as.name))
              /\ as'.result = "failed" => registry' = registry
       /\ TryFloorBackup => SaveCommits(registry.activeFloor)
       /\ \A id \in FloorIds, d \in DockInputs :
              SaveFloorCard(id, d) => SaveCommits(id)]_vars

\* The new-floor listener's saveCurrentFloor failed and the registry is the
\* one it read.
C1_Witness ==
    /\ nf.pc = "done" /\ nf.result = "failed" /\ nf.saved = NULL
    /\ nf.activeId # NULL /\ HasFloor(registry, nf.activeId)
    /\ faults > 0
    /\ registry = nf.saveConfig

\* C2: switchFloor makes the target the active floor only as its last step,
\* after the reboot and a probe that found the robot reachable; until then
\* getActiveFloor returns the floor that was active when the switch began.
C2_ActiveSetLast ==
    /\ sw.pc \in SwitchSteps => getActiveFloor = sw.config.activeFloor
    /\ sw.pc = "done" /\ sw.result # "mapping" =>
          IF sw.result = "ok"
          THEN sw.rebooted /\ sw.i >= 1 /\ getActiveFloor = sw.target
          ELSE getActiveFloor = sw.config.activeFloor

C2_Witness ==
    /\ sw.pc = "done" /\ sw.result = "ok"
    /\ sw.config.activeFloor # sw.target
    /\ getActiveFloor = sw.target

\* The last_map tokens saved for the registered floors other than f.
OthersMaps(f) ==
    {backup[g]["last_map"] : g \in {h \in FloorIds : h # f /\ HasFloor(registry, h)}}
        \ {NoFile}

\* C3: no floor's backup directory comes to hold another floor's map: a
\* saveCurrentFloor run by a workflow for the active floor f (the pre-switch
\* backups, the new-floor backup, the discovery backup) never replaces what f's
\* directory holds by the map saved for another registered floor.
C3_BackupOnlyOwnMap ==
    [][\A f \in FloorIds :
          /\ SwitchSave1 \/ SwitchSave2 \/ NewFloorBackup \/ TryFloorBackup
          /\ backup'[f]["last_map"] # backup[f]["last_map"]
          => backup'[f]["last_map"] \notin OthersMaps(f)]_vars

SwitchRunning == sw.pc \in SwitchSteps \cup {"cache"}
NewFloorRunning == nf.pc \in NewFloorSteps \/ pending # NoPending

\* C4: at most one floor-switch or new-floor workflow is in flight: a request
\* arriving while another workflow runs is rejected at its pre-condition check.
C4_OneWorkflow == ~(SwitchRunning /\ NewFloorRunning)

\* C5: while a new floor is pending, a switch request and a new-floor request
\* are rejected with no remote command issued and the registry unchanged.
C5_PendingRejects ==
    [][pending # NoPending =>
          /\ sw.pc = "idle" /\ sw'.pc # "idle" =>
                /\ sw'.pc = "done" /\ sw'.result = "mapping" /\ ~sw'.ssh
                /\ UNCHANGED <<registry, live, backup, robotState, faults>>
          /\ nf.pc = "idle" /\ nf'.pc # "idle" =>
                /\ nf'.pc = "done" /\ nf'.result = "mapping"
                /\ UNCHANGED <<registry, live, backup, robotState, faults>>]_vars

C5_Witness ==
    /\ pending # NoPending
    /\ sw.pc = "done" /\ sw.result = "mapping"
    /\ ~sw.ssh /\ ~sw.rebooted

\* C6: switchFloor removes or overwrites live files and reboots only after it
\* verified last_map in the target's backup directory (directly or after
\* recovery); otherwise it fails with no live file removed, no reboot and the
\* active floor unchanged.
C6_VerifiedBeforeRemoval ==
    [][/\ sw.pc \in SwitchSteps /\ sw' # sw /\ live' # live => sw.verified
       /\ ~sw.rebooted /\ sw'.rebooted => sw.verified
       /\ ~sw.verified /\ sw'.verified => backup'[sw.target]["last_map"] # NoFile
       /\ sw.pc = "check" /\ sw' # sw /\ ~sw'.verified =>
             /\ sw'.pc = "done" /\ sw'.result = "nosaved" /\ ~sw'.rebooted
             /\ live' = live /\ robotState' = robotState
             /\ registry'.activeFloor = sw.config.activeFloor]_vars

C6_Witness ==
    /\ sw.pc = "done" /\ sw.result = "nosaved"
    /\ backup[sw.target]["last_map"] = NoFile
    /\ live["last_map"] # NoFile

\* C7: MAX_POLL_ATTEMPTS unreachable probes end switchFloor with the timeout
\* error and the active floor as before the switch, and not fewer: up to the
\* last attempt a reachable probe can still end the wait.
C7_RebootTimeout ==
    /\ sw.result = "timeout" =>
          /\ sw.i = MAX_POLL_ATTEMPTS
          /\ getActiveFloor = sw.config.activeFloor
    /\ sw.result = "ok" => sw.i \in 1..MAX_POLL_ATTEMPTS
    /\ sw.pc = "wait" => sw.i < MAX_POLL_ATTEMPTS /\ ENABLED SwitchProbe(TRUE)

C7_Witness ==
    /\ sw.pc = "done" /\ sw.result = "timeout"
    /\ sw.i = MAX_POLL_ATTEMPTS
    /\ getActiveFloor # sw.target

\* The restore loop stopped at a failed copy: the last map file of the
\* target's backup did not reach the live slot.
CopyAborted ==
    /\ faults' > faults
    /\ backup[sw.target][MAP_FILES[Len(MAP_FILES)]] # NoFile
    /\ live'[MAP_FILES[Len(MAP_FILES)]] = NoFile

\* C8: a failed removal of a conflict file or live map file, or a failed copy
\* of a target backup file, aborts switchFloor: no config patch, no reboot, the
\* active floor unchanged.
C8_RemoveRestoreFatal ==
    [][/\ sw.pc = "remove" /\ faults' > faults =>
             sw'.pc = "done" /\ sw'.result = "remove_failed"
       /\ sw.pc = "restore" /\ CopyAborted =>
             sw'.pc = "done" /\ sw'.result = "restore_failed"
       /\ sw.pc \in {"remove", "restore"} /\ sw'.pc = "done" =>
             /\ ~sw'.patched /\ ~sw'.rebooted
             /\ registry' = registry
             /\ getActiveFloor = sw.config.activeFloor]_vars

C8_Witness ==
    /\ sw.pc = "done" /\ sw.result = "restore_failed"
    /\ ~sw.patched /\ ~sw.rebooted
    /\ getActiveFloor = sw.config.activeFloor

\* C9: a failed pre-switch backup, a failed stop-if-cleaning and a failed
\* config patch do not end switchFloor: it goes on to the next step, and a
\* switch that ends well has rebooted and made the target active.
C9_BestEffortSteps ==
    [][/\ sw.pc = "save1" /\ sw' # sw => sw'.pc = "check"
       /\ sw.pc = "stop" /\ sw' # sw => sw'.pc \in {"save2", "remove"}
       /\ sw.pc = "save2" /\ sw' # sw => sw'.pc = "remove"
       /\ sw.pc = "patch" /\ sw' # sw => sw'.pc = "reboot"
       /\ sw'.result = "ok" =>
             sw'.rebooted /\ registry'.activeFloor = sw'.target]_vars

C9_Witness ==
    /\ sw.pc = "done" /\ sw.result = "ok"
    /\ sw.soft # {}
    /\ sw.rebooted /\ getActiveFloor = sw.target
    /\ live["last_map"] = backup[sw.target]["last_map"]

\* C10: a switch to the floor that is already active returns at once: no
\* remote command, no reboot, the registry unchanged.
C10_ActiveFloorNoOp ==
    [][sw.pc = "cache" /\ sw' # sw
       /\ HasFloor(registry, sw.target) /\ getActiveFloor = sw.target =>
          /\ sw'.pc = "done" /\ sw'.result = "noop"
          /\ ~sw'.ssh /\ ~sw'.rebooted
          /\ UNCHANGED <<registry, live, backup, robotState, faults>>]_vars

C10_Witness ==
    /\ sw.pc = "done" /\ sw.result = "noop"
    /\ getActiveFloor = sw.target
    /\ ~sw.ssh /\ ~sw.rebooted /\ sw.i = 0

\* C11: a switch to a floor id that is not in the registry fails with "not
\* found": it issues no remote shell command, does not stop or reboot the
\* robot, and leaves the registry and all files as they were.
C11_UnknownFloorRejected ==
    [][sw.pc = "cache" /\ sw' # sw /\ ~HasFloor(registry, sw.target) =>
          /\ sw'.pc = "done" /\ sw'.result = "notfound"
          /\ ~sw'.ssh /\ ~sw'.rebooted /\ ~sw'.patched /\ sw'.i = 0
          /\ UNCHANGED <<registry, live, backup, robotState, faults>>]_vars
C11_Witness ==
    /\ sw.pc = "done" /\ sw.result = "notfound"
    /\ ~HasFloor(registry, sw.target)
    /\ ~sw.ssh /\ ~sw.rebooted

\* The sources of a recovery for target t as the state before it shows them:
\* the listed directories of no registered floor that hold last_map, and the
\* alternate copies present in the live slot.
Unclaimed(t) ==
    {k \in 1..Len(ListedDirs) :
        /\ ListedDirs[k] # t
        /\ ~HasFloor(registry, ListedDirs[k])
        /\ backup[ListedDirs[k]]["last_map"] # NoFile}
Alternates == {k \in 1..Len(BACKUP_FILES) : live[BACKUP_FILES[k]] # NoFile}
Overlay(src, dst) == [f \in MapFileSet |-> IF src[f] # NoFile THEN src[f] ELSE dst[f]]

\* What the first source that has a candidate gives, and nothing of a later
\* one: <<success, files of the target directory>>.
FirstSourceWins(t) ==
    IF Unclaimed(t) # {}
    THEN <<TRUE, Overlay(backup[ListedDirs[Min(Unclaimed(t))]], backup[t])>>
    ELSE IF live["user_map0"] # NoFile
    THEN <<TRUE, [Overlay(live, backup[t]) EXCEPT !["last_map"] = live["user_map0"]]>>
    ELSE IF Alternates # {}
    THEN <<TRUE, [backup[t] EXCEPT !["last_map"] = live[BACKUP_FILES[Min(Alternates)]]]>>
    ELSE <<FALSE, backup[t]>>

\* C12: for a target without a direct backup, recovery tries unclaimed backup
\* directories, then firmware maps (user_map*), then the alternate last_map
\* files of the live slot.  It succeeds at the first candidate that leaves
\* last_map in the target's directory and takes nothing from a later source;
\* a later source is used only when the earlier ones gave nothing (or a remote
\* command of theirs failed); with no candidate it answers false, it never
\* throws, and the target's directory is as before.
C12_RecoveryOrder ==
    [][sw.pc = "check" /\ sw' # sw /\ backup[sw.target]["last_map"] = NoFile =>
          LET new == backup'[sw.target]
              saved == sw'.pc = "stop" /\ sw'.verified
              failed == sw'.pc = "done" /\ sw'.result = "nosaved"
          IN  /\ saved # failed
              /\ saved => new["last_map"] # NoFile
              /\ faults' = faults => <<saved, new>> = FirstSourceWins(sw.target)
              /\ saved /\ new["last_map"] = FirmwareMap =>
                    Unclaimed(sw.target) = {} \/ faults' > faults
              /\ \A k \in 1..Len(BACKUP_FILES) :
                    saved /\ new["last_map"] = AlternateMap(k) =>
                       \/ faults' > faults
                       \/ /\ Unclaimed(sw.target) = {}
                          /\ live["user_map0"] = NoFile
                          /\ \A j \in 1..(k - 1) : j \notin Alternates]_vars
C12_Witness ==
    /\ sw.pc = "stop" /\ sw.verified /\ faults = 0
    /\ backup[sw.target]["last_map"] = OrphanMap
    /\ backup[UnclaimedDir]["last_map"] = OrphanMap
    /\ live["user_map0"] = FirmwareMap
    /\ Alternates # {}

AutoSaveRunning == as.pc \in {"poll", "save"}

C14_TriggerOnce ==
    /\ as.attempts <= 1
    /\ as.attempts = 1 <=> as.n >= TriggerAfterPolls
    /\ as.pc \in {"save", "done"} /\ as.found /\ as.n < TriggerAfterPolls =>
          as.attempts = 0
    /\ as.pc \in {"save", "done"} /\ ~as.found =>
          as.n = MaxSegPolls /\ as.attempts = 1
C14_Witness ==
    /\ as.pc = "save" /\ ~as.found
    /\ as.n = MaxSegPolls /\ as.attempts = 1 /\ as.triggered

\* C15: the segment wait is left only for the save (segments found or not),
\* and the auto-save reaches its end; when the save has returned or thrown
\* the pending floor is null and the re-entry flag is reset, which is what a
\* switch request looks at.
C15_AutoSaveEndsWithSave ==
    /\ [][/\ as.pc = "poll" /\ as' # as => as'.pc \in {"poll", "save"}
          /\ as.pc # "done" /\ as'.pc = "done" =>
                /\ as.pc = "save"
                /\ as'.result \in {"saved", "failed"}
                /\ pending' = NoPending /\ ~waiting']_vars
    /\ [](as.pc = "done" => pending = NoPending /\ ~waiting)
    /\ (as.pc = "poll" ~> as.pc = "done")
C15_Witness ==
    /\ as.pc = "done" /\ as.result = "failed" /\ ~as.found
    /\ pending = NoPending /\ ~waiting

\* C16: a delivered change of the status from cleaning, returning or moving
\* to idle, docked or error while a floor is pending starts the auto-save
\* (unless one is already waiting); no change of the status starts one while
\* no floor is pending, and no other kind of change starts one.
C16_TransitionStartsAutoSave ==
    [][status' # status =>
          /\ /\ pending # NoPending /\ ~waiting
             /\ status \in ActiveStates /\ status' \in TerminalStates
             => /\ as'.pc = "poll" /\ as'.n = 0 /\ waiting'
                /\ as'.name = pending[1].name /\ as'.hasDock = pending[1].hasDock
          /\ pending = NoPending => as' = as /\ waiting' = waiting
          /\ as' # as =>
                /\ pending # NoPending
                /\ status \in ActiveStates /\ status' \in TerminalStates]_vars
C16_Witness ==
    /\ as.pc = "poll" /\ as.n = 0 /\ waiting
    /\ pending # NoPending /\ as.name = pending[1].name
    /\ status = "error"

\* C17: when registering the new floor, resetting the map or starting the
\* mapping pass fails, the attempt ends with no pending new floor; the pending
\* floor is set only by the step in which the mapping start succeeded.
C17_PendingOnlyAfterStart ==
    [][/\ pending = NoPending /\ pending' # NoPending =>
             /\ nf.pc = "start" /\ nf'.pc = "done" /\ nf'.result = "started"
             /\ robotState' = "cleaning"
       /\ nf' # nf /\ nf'.pc = "done" /\ nf'.result = "failed" =>
             pending = NoPending /\ pending' = NoPending]_vars
C17_Witness ==
    /\ nf.pc = "done" /\ nf.result = "failed" /\ pending = NoPending
    /\ HasFloor(registry, DeriveId(FloorName(nf.count + 1)))
    /\ live["last_map"] = NoFile

\* C18: the new-floor workflow resets the live map only after it has saved
\* the live map, with last_map verified, in the same run: as 'Floor 1' when
\* it found no floors, otherwise as the backup of the floor that was active;
\* when that save fails the run ends without a reset and without registering
\* a new floor.
C18_ResetAfterSave ==
    [][/\ nf.pc = "reset" /\ nf'.pc = "start" =>
             /\ nf.saved # NULL
             /\ nf.saved = (IF nf.activeId = NULL THEN DeriveId(FloorName(1))
                            ELSE nf.activeId)
             /\ backup[nf.saved]["last_map"] # NoFile
       /\ nf.pc \in {"first", "backup"} /\ nf'.pc = "done" /\ nf'.saved = NULL =>
             /\ live' = live
             /\ registry' = registry]_vars

\* A step of a switch or of one of its saves, and of the new-floor run's save,
\* that writes the registry.
SuspendedWrite ==
    /\ registry' # registry
    /\ \/ sw.pc \in SwitchSteps /\ sw' # sw
       \/ nf.pc = "backup" /\ nf' # nf

\* C19: no registry update is lost.  When a rename, a dock change, an add or
\* a remove has completed while a switchFloor or a saveCurrentFloor was
\* suspended on a remote step, the registry that the switch or save persists
\* at its end still has it: that write changes the active floor (and adds
\* the new floor's entry in the new-floor run) and keeps every entry, name
\* and dock flag that was persisted when it was made.
C19_NoLostUpdate ==
    [][SuspendedWrite =>
          \A i \in 1..Len(registry.floors) :
             \E j \in 1..Len(registry'.floors) : registry'.floors[j] = registry.floors[i]]_vars

\* C20: whatever the sequence and interleaving of addFloor, saveAsNewFloor,
\* createEmptyFloor, renameFloor, setFloorDock, removeFloor and switchFloor,
\* no two entries of the registry have the same id.
C20_UniqueIds ==
    \A i, j \in 1..Len(registry.floors) :
       registry.floors[i].id = registry.floors[j].id => i = j
C20_Witness ==
    /\ Len(registry.floors) = MaxFloors
    /\ \E i \in 1..Len(registry.floors) : registry.floors[i].name = RenamedName(registry.floors[i].id)
    /\ registry.floors[1].id > registry.floors[2].id
    /\ sw.pc \in SwitchSteps

\* ---------------------------------------------------------------- C21
Ids(floors) == {floors[i].id : i \in 1..Len(floors)}

\* C21: addFloor with an id that is in the registry fails, renameFloor and
\* setFloorDock with an id that is not in it fail, and a call that fails so
\* leaves the registry as it was.
C21_RejectedCallsChangeNothing ==
    [][/\ call'.op = "addFloor" /\ call'.id \in Ids(registry.floors)
            => call'.error = "already exists" /\ registry' = registry
       /\ call'.op \in {"renameFloor", "setFloorDock"}
            /\ call'.id \notin Ids(registry.floors)
            => call'.error = "not found" /\ registry' = registry]_vars

\* A setFloorDock for an id the registry, which holds another floor, lacks.
C21_Witness ==
    /\ call.op = "setFloorDock"
    /\ call.error = "not found"
    /\ registry.floors # <<>>

\* ---------------------------------------------------------------- C22
Entries(floors) == {floors[i] : i \in 1..Len(floors)}

\* C22: removeFloor(id) drops the entry with that id and no other, clears the
\* active floor exactly when it was id, and succeeds also when the removal of
\* the floor's directory has failed.
C22_RemoveFloorFrame ==
    [][call'.op = "removeFloor" =>
         /\ call'.error = "none"
         /\ Entries(registry'.floors) =
               {f \in Entries(registry.floors) : f.id # call'.id}
         /\ Len(registry'.floors) =
               Cardinality({i \in 1..Len(registry.floors) :
                               registry.floors[i].id # call'.id})
         /\ registry'.activeFloor =
               IF registry.activeFloor = call'.id THEN NULL
               ELSE registry.activeFloor]_vars

\* The active floor of two has been removed while `rm -rf` failed.
C22_Witness ==
    /\ call.op = "removeFloor"
    /\ ~call.removed
    /\ registry.activeFloor = NULL
    /\ Len(registry.floors) = 1
    /\ backup[call.id] # EmptyDir

\* ---------------------------------------------------------------- C23
AsciiAlnum == {"F", "f", "k", "1", "2"}
NoAsciiAlnum(name) == \A i \in 1..Len(name) : name[i] \notin AsciiAlnum
NoIdChar(name) == \A i \in 1..Len(name) : toLowerCase(name)[i] \notin IdChars

\* Only a-z, 0-9 and single underscores, none at either end.
WellFormedId(id) ==
    /\ \A i \in 1..Len(id) : id[i] \in IdChars \cup {"_"}
    /\ \A i \in 1..Len(id) - 1 : ~(id[i] = "_" /\ id[i + 1] = "_")
    /\ id # <<>> => id[1] # "_" /\ id[Len(id)] # "_"

\* A saveAsNewFloor that was rejected has sent no command and written nothing.
RejectedUntouched ==
    /\ call'.error = "invalid"
    /\ registry' = registry
    /\ backup' = backup
    /\ live' = live
    /\ faults' = faults

\* C23, with the rejected names taken to be those without an ASCII letter or
\* digit: the derived id is well formed and deriving from it gives it again,
\* and saveAsNewFloor rejects such a name before it sends a command or writes
\* the registry.
C23_NoAsciiNameRejected ==
    [][/\ call'.op = "deriveId"
            => /\ WellFormedId(call'.id)
               /\ call'.again = call'.id
       /\ call'.op = "saveAsNewFloor" /\ NoAsciiAlnum(call'.name)
            => RejectedUntouched]_vars

\* C23: the derived id is well formed and deriving from it gives it again,
\* and saveAsNewFloor rejects a name whose lower-case form has no character
\* of a-z and 0-9 before it sends a command or writes the registry.
C23_DerivedIdWellFormed ==
    [][/\ call'.op = "deriveId"
            => /\ WellFormedId(call'.id)
               /\ call'.again = call'.id
               /\ NoIdChar(call'.name) <=> call'.id = <<>>
       /\ call'.op = "saveAsNewFloor" /\ NoIdChar(call'.name)
            => RejectedUntouched]_vars

\* A name of blanks and underscores was rejected with a floor registered.
C23_Witness ==
    /\ call.op = "saveAsNewFloor"
    /\ call.error = "invalid"
    /\ call.name # <<>>
    /\ registry.floors # <<>>

\* ---------------------------------------------------------------- C24
WithId(floors, id) == {i \in 1..Len(floors) : floors[i].id = id}

\* C24: after a successful saveAsNewFloor the registry has exactly one entry
\* with the derived id, which carries the hasDock given (true when none was)
\* and is the active floor; an entry that was there is reused with its name,
\* and none is added.
C24_SaveAsNewFloorRegisters ==
    [][call'.op = "saveAsNewFloor" /\ call'.error = "none" =>
         LET id == FloorOf(call'.id)
             was == WithId(registry.floors, id)
             now == WithId(registry'.floors, id)
         IN  /\ Cardinality(now) = 1
             /\ registry'.activeFloor = id
             /\ \A i \in now :
                  /\ registry'.floors[i].hasDock =
                       IF Len(call'.args) > 1 THEN call'.args[2] ELSE TRUE
                  /\ was = {} => registry'.floors[i].name = call'.name
                  /\ \A j \in was : registry'.floors[i].name = registry.floors[j].name
             /\ Len(registry'.floors) =
                  Len(registry.floors) + (IF was = {} THEN 1 ELSE 0)]_vars

\* A floor registered under another name has been saved again, without a
\* dock.
C24_Witness ==
    /\ call.op = "saveAsNewFloor"
    /\ call.error = "none"
    /\ \E i \in WithId(registry.floors, FloorOf(call.id)) :
         /\ registry.floors[i].name # call.name
         /\ registry.floors[i].hasDock = FALSE

\* ---------------------------------------------------------------- C25
\* C25: returnToDock sends stop, and not home, exactly when the active floor
\* is a registered floor whose hasDock is false; otherwise it sends home.
\* (In SpecDock a step that leaves `call` as it is is not a returnToDock.)
C25_StopWithoutDock ==
    [][call' # call /\ call'.op = "returnToDock" =>
         LET noDock == \E i \in 1..Len(registry.floors) :
                          /\ registry.floors[i].id = registry.activeFloor
                          /\ registry.activeFloor # NULL
                          /\ "hasDock" \in DOMAIN registry.floors[i]
                          /\ registry.floors[i].hasDock = FALSE
         IN  call'.sent = IF noDock THEN <<"stop">> ELSE <<"home">>]_vars

\* Stop was sent over REST on a floor without a dock.
C25_Witness ==
    /\ call.op = "returnToDock"
    /\ call.sent = <<"stop">>
    /\ ~call.mqtt
    /\ ~activeFloorHasDock

\* Home was sent with an active floor that is not registered, and with one
\* whose entry has no hasDock field.
C25_DanglingReached ==
    /\ call.op = "returnToDock"
    /\ call.sent = <<"home">>
    /\ registry.activeFloor # NULL
    /\ ~HasFloor(registry, registry.activeFloor)

C25_AbsentReached ==
    /\ call.op = "returnToDock"
    /\ call.sent = <<"home">>
    /\ \E i \in 1..Len(registry.floors) :
         /\ registry.floors[i].id = registry.activeFloor
         /\ "hasDock" \notin DOMAIN registry.floors[i]

\* ---------------------------------------------------------------- C26
Open(c) == c.connected /\ c.conn # NoConn

\* C26: a command connects when there is no connection and uses the open one
\* when there is; updateConfig closes an open connection when a setting
\* changes and keeps it when none does.
C26_ConnectionFollowsConfig ==
    [][/\ call'.op \in {"exec", "fileExists"} /\ Open(channel)
            => channel'.conn = channel.conn
       /\ call'.op \in {"exec", "fileExists"} /\ ~Open(channel) /\ Open(channel')
            => channel'.conn = <<Settings(channel)>>
       /\ call'.op = "updateConfig" /\ Open(channel)
            => IF Settings(channel') # Settings(channel)
               THEN ~channel'.connected /\ channel'.conn = NoConn
               ELSE channel'.conn = channel.conn /\ channel'.connected]_vars

\* ---------------------------------------------------------------- C27
\* C27: fileExists answers false whenever its command fails, reboot returns
\* normally whatever its command does, and after reboot the channel is
\* marked disconnected.
C27_FailuresSwallowed ==
    [][/\ call'.op = "fileExists"
            => call'.result = IF call'.outcome = "exit 0" THEN "true" ELSE "false"
       /\ call'.op = "reboot"
            => /\ call'.result = "resolved"
               /\ ~channel'.connected
               /\ channel'.conn = NoConn]_vars

\* fileExists has answered false because no connection could be made.
C27_Witness ==
    /\ call.op = "fileExists"
    /\ call.outcome = "unreachable"
    /\ call.result = "false"

\* ---------------------------------------------------------------- C28
\* C28: once a new floor is pending and the robot has been seen in an active
\* status, the pending floor is eventually cleared unless the robot is never
\* seen in a terminal status afterwards, whatever is seen in between.
C28_PendingEventuallyCleared ==
    [](pending # NoPending /\ status \in ActiveStates
         => \/ <>(pending = NoPending)
            \/ [](status \notin TerminalStates))

\* ---------------------------------------------------------------- C29
\* C29: the active floor is null or the id of a floor of the registry, in
\* every state, also when a floor is deleted during the switch to it.
C29_ActiveFloorRegistered ==
    registry.activeFloor = NULL \/ HasFloor(registry, registry.activeFloor)

\* ---------------------------------------------------------------- C30
\* C30: when a switch is at its reboot step, each of the four map files is in
\* the live slot exactly when it is in the target's backup directory, and
\* with the content it has there; StartPos.data and user_map0 are not in the
\* live slot.
C30_LiveSlotIsTargetBackup ==
    sw.pc = "reboot" =>
        /\ \A f \in MapFileSet : live[f] = backup[sw.target][f]
        /\ \A f \in Range(CONFLICT_FILES) : live[f] = NoFile

\* ---------------------------------------------------------------- C31
\* The directories of other registered floors, as recovery for target t sees
\* them in the registry it reads.
Claimed(t) == {d \in Dirs \ {t} : HasFloor(registry, d)}

\* C31: recovery never adopts files from the backup directory of another
\* floor of the registry: the last_map it leaves in the target's directory is
\* never the one of such a directory, and when it is the one of a listed
\* directory, every file of the target's directory is a file the target had
\* or a file of a directory that is no registered floor's.
C31_RecoveryAdoptsUnclaimedOnly ==
    [][sw.pc = "check" /\ sw' # sw /\ backup[sw.target]["last_map"] = NoFile =>
          LET new == backup'[sw.target]
          IN  /\ \A d \in Claimed(sw.target) :
                    backup[d]["last_map"] # NoFile =>
                        new["last_map"] # backup[d]["last_map"]
              /\ new["last_map"] = OrphanMap =>
                    \A f \in MapFileSet :
                       \/ new[f] = backup[sw.target][f]
                       \/ \E k \in Unclaimed(sw.target) :
                             new[f] = backup[ListedDirs[k]][f]]_vars
\* Recovery has passed over the directory of the other registered floor,
\* which holds a map, and has adopted the unclaimed directory listed after it.
C31_Witness ==
    /\ sw.pc = "stop" /\ sw.verified
    /\ backup[sw.target]["last_map"] = OrphanMap
    /\ \E d \in Claimed(sw.target) : backup[d]["last_map"] = FirstMap

\* ---------------------------------------------------------------- C32
\* C32: step 3 of a switch sends the stop command exactly when its status
\* probe reports 'cleaning' (a probe that fails reports nothing and no stop is
\* sent), the step is taken once, and a switch removes a file of the live
\* slot only after it.
C32_StopBeforeRemoval ==
    [][/\ sw.pc = "stop" /\ sw'.pc # "stop" =>
             /\ sw'.stop \in {"issued", "skipped", "unprobed"}
             /\ sw'.stop = "issued" => robotState = "cleaning"
             /\ sw'.stop = "skipped" => robotState # "cleaning"
             /\ sw'.stop = "unprobed" => faults' > faults
       /\ sw.pc # "stop" /\ sw'.pc \notin {"idle", "cache", "done"} =>
             sw'.stop = sw.stop
       /\ (\E f \in LiveFiles : live[f] # NoFile /\ live'[f] = NoFile) =>
             sw.stop # "none"]_vars
\* The probe reported 'cleaning', the stop command was sent, and the switch has
\* removed the files of the live slot afterwards.
C32_Witness ==
    /\ sw.pc = "restore" /\ sw.stop = "issued"
    /\ \A f \in MapFileSet : live[f] = NoFile
\* The probe reported another status and the switch went on without a stop.
C32_SkippedReached ==
    /\ sw.pc = "restore" /\ sw.stop = "skipped" /\ robotState = "returning"

\* ---------------------------------------------------------------- C33
\* C33: when the new-floor workflow registers the floor it has named
\* 'Floor N', N being the number of floors it counted plus one, no floor of
\* the registry has the id that name derives.
C33_NewFloorIdIsFresh ==
    [][nf.pc # "reset" /\ nf'.pc = "reset" =>
          ~HasFloor(registry, DeriveId(FloorName(nf'.count + 1)))]_vars

\* ---------------------------------------------------------------- C34
\* After the step, every map file that directory d holds is the live slot's
\* file of that name: a copy this save can have taken.
CopyOfLive(d) ==
    \A f \in MapFileSet : backup'[d][f] # NoFile => backup'[d][f] = live[f]

\* C34: a saveCurrentFloor or saveAsNewFloor that succeeds leaves in the
\* floor's backup directory the copies of the live slot's map files it has
\* taken and nothing from an earlier save.
C34_BackupIsThisSave ==
    [][/\ (SwitchSave1 \/ SwitchSave2) /\ sw'.soft = sw.soft => CopyOfLive(SaveId)
       /\ NewFloorBackup /\ nf'.saved = nf.activeId => CopyOfLive(nf.activeId)
       /\ AutoSaveSave /\ as'.result = "saved" => CopyOfLive(DeriveId(as.name))]_vars

\* ---------------------------------------------------------------- C35
\* C35: removeFloor called with an id that is no floor of the registry
\* deletes nothing on the robot: every backup directory is as before.
C35_DeletesOnlyRegistered ==
    [][call'.op = "removeFloor" /\ ~HasFloor(registry, call'.id) =>
          backup' = backup]_vars

\* ---------------------------------------------------------------- C36
\* C36: a discovery address update changes the host of the channel and no
\* other setting: port, username, password and private key are the ones held
\* before, which the next command connects with.
C36_DiscoveryChangesHostOnly ==
    [][call'.op = "discovery" =>
          /\ channel'.host = call'.host
          /\ channel'.port = channel.port
          /\ channel'.username = channel.username
          /\ channel'.password = channel.password
          /\ channel'.privateKey = channel.privateKey]_vars

\* ---------------------------------------------------------------- C37
\* C37: in every state, the backup directory of every floor of the registry
\* holds last_map; getFloorList reports hasCachedMap = true for each of them.
C37_RegisteredFloorsHaveMaps ==
    \A i \in 1..Len(registry.floors) :
       backup[registry.floors[i].id]["last_map"] # NoFile

\* ---------------------------------------------------------------- C38
\* C38: when every remote call returns, a switch that has been accepted
\* reaches its end, with a result or an error, and so does an auto-save run;
\* the reachability wait makes at most MAX_POLL_ATTEMPTS probes and the
\* segment wait at most the polls its timeout allows.
C38_WorkflowsTerminate ==
    /\ [](sw.i <= MAX_POLL_ATTEMPTS /\ as.n <= MaxSegPolls)
    /\ (sw.pc \in SwitchSteps \cup {"cache"} ~> sw.pc = "done")
    /\ (as.pc \in {"poll", "save"} ~> as.pc = "done")
\* A switch has ended in the timeout error after MAX_POLL_ATTEMPTS probes.
C38_Witness ==
    /\ sw.pc = "done" /\ sw.result = "timeout" /\ sw.i = MAX_POLL_ATTEMPTS
\* An auto-save has ended after the last poll its timeout allows.
C38_TimedOutReached ==
    /\ as.pc = "done" /\ as.n = MaxSegPolls /\ ~as.found

\* The ids a message can make active.
SegmentIds == {String(x) : x \in SegmentIdValues}

\* The events emitted so far for one id, in order.
EventsOf(id) ==
    LET ForId(e) == e.id = id IN SelectSeq(mqttState.log, ForId)

StartedFirst(s) ==
    \A k \in 1..Len(s) :
      s[k].type = IF k % 2 = 1 THEN "segment_started" ELSE "segment_finished"

\* How often a message's events hold the event `type` for `id`.
Emitted(m, type, id) ==
    Cardinality({k \in 1..Len(m.emitted) : m.emitted[k] = [type |-> type, id |-> id]})

\* C39: for every segment id the segment_started and segment_finished events
\* alternate, the first being segment_started; a map message emits
\* segment_started once for exactly the ids that were not active before it
\* and are active after it, and segment_finished once for exactly the ids
\* that were active and no longer are; a message that cannot be parsed emits
\* nothing and leaves the active set as it was.
C39_SegmentEventsAlternate ==
    /\ [](\A id \in SegmentIds : StartedFirst(EventsOf(id)))
    /\ [][call'.op = "mapData" =>
            IF call'.parsed
            THEN \A id \in SegmentIds :
                   /\ Emitted(mqttState', "segment_started", id)
                        = IF ~Has(mqttState.active, id) /\ Has(mqttState'.active, id)
                          THEN 1 ELSE 0
                   /\ Emitted(mqttState', "segment_finished", id)
                        = IF Has(mqttState.active, id) /\ ~Has(mqttState'.active, id)
                          THEN 1 ELSE 0
            ELSE /\ mqttState'.emitted = <<>>
                 /\ mqttState'.active = mqttState.active]_vars

\* A segment has started and finished, another one is active, and the
\* message received last could not be parsed.
C39_Witness ==
    /\ Len(EventsOf("1")) = 2
    /\ mqttState.active = <<"2">>
    /\ call.op = "mapData"
    /\ ~call.parsed

\* A segment that has started, finished and started again.
C39_RestartReached == Len(EventsOf("1")) = 3

\* The clients in a state.
ClientsIn(states) == {i \in ClientIds : clients[i].state \in states}

\* C40: the manager never has more than one open connection; commands issued
\* while no connection is established share one connection in the making;
\* every connection that is open is the one the manager holds.
C40_OneConnection ==
    /\ Cardinality(ClientsIn({"open"})) <= 1
    /\ Cardinality(ClientsIn({"connecting"})) <= 1
    /\ \A i \in ClientsIn({"open"}) : clients[i].held

\* Two connections open at once, one of them held by nobody.
C40_LeakReached ==
    /\ Cardinality(ClientsIn({"open"})) = 2
    /\ \E i \in ClientsIn({"open"}) : ~clients[i].held

====
